---- MODULE Spec2Model ----
(***************************************************************************)
(* Model of the sql-insight collector: the level negotiator                *)
(* (src/src/collection.rs) and the execution scheduler (src/src/main.rs,   *)
(* src/src/pipeline.rs) driving the MySQL slow-log hot switch              *)
(* (src/src/level1.rs).                                                    *)
(***************************************************************************)
EXTENDS Integers, Sequences, FiniteSets, TLC

VARIABLES
    \* ---- level negotiation (collection.rs) ----
    policy,        \* CollectionPolicy handed to negotiate_collection_level
    probe,         \* CapabilityProbe handed to negotiate_collection_level
    result,        \* NegotiationResult returned, NoResult before the call
    npc,           \* "call" before negotiate_collection_level ran, "returned" after
    \* ---- execution scheduler (main.rs, pipeline.rs) ----
    scheduler,     \* SchedulerConfig: mode, retry_times, max_cycles
    collect_level, \* cli.collect_level, the requested level
    level1_config, \* Level1CollectorConfig: the two hot-switch flags
    run_id,        \* main: let run_id = new_run_id(), made once before the loop
    pc,            \* position of the driver thread inside main's loop
    cycle,         \* main: let mut cycle: u32
    attempt,       \* main: the loop variable of `for attempt in 1..=total_attempts`
    attempts,      \* main: Vec<AttemptTrace> of the running cycle
    payload,       \* main: Option<CliOutput> of the running cycle
    record,        \* the UnifiedCollectionRecord printed last, NoRecord before the first
    emitted,       \* how many of them were printed so far
    timer,         \* ticks left of the driver's blocking call (recv_timeout or sleep)
    threads,       \* the live threads spawned by run_with_timeout, by <<cycle, attempt>>
    channels,      \* channels[w]: the mpsc channel of thread w, while an end of it lives
    \* ---- the MySQL server the collector talks to (level1.rs) ----
    server,        \* global variables slow_query_log and long_query_time
    server0,       \* their values before the first collection unit started
    \* ---- the pure functions of level1.rs and pipeline.rs, called on their own ----
    fpc,           \* which calls were made: "idle", "call", "returned", "again"
    sql,           \* normalize_sql_fingerprint: the argument, a sequence of characters
    fingerprint,   \* normalize_sql_fingerprint(sql)
    refingerprint, \* normalize_sql_fingerprint(fingerprint)
    entries,       \* aggregate_slow_sql_digests: the argument, a Vec<SlowLogEntry>
    digests,       \* aggregate_slow_sql_digests(entries)
    content,       \* the log parser exercised: the lines of its argument
    parsed,        \* the entries it returned
    error_lines,   \* extract_error_log_alerts: the argument `lines`
    alerts,        \* extract_error_log_alerts(lines)
    base_secs,     \* jittered_interval: the argument base_secs
    jitter_pct,    \* jittered_interval: the argument jitter_pct, in units of 1 / JitterDen
    now_ms,        \* jittered_interval: what now_unix_ms() returned
    sleep_for,     \* jittered_interval(base_secs, jitter_pct), in milliseconds
    log_len,       \* read_file_appended_segment: the length of the file at path
    initial_offset, \* read_file_appended_segment: the argument offset
    max_slow_log_bytes, \* read_file_appended_segment: the argument max_bytes
    segment,       \* read_file_appended_segment: the offsets of the bytes read
    l1cfg,         \* collect_mysql_slow_log: the argument config
    mysql,         \* collect_mysql_slow_log: the global variables of the server
    mysql0,        \* the global variables of the server when the run began
    statements,    \* the SET GLOBAL statements the run has sent to the server
    report,        \* collect_mysql_slow_log: the argument report
    locals,        \* collect_mysql_slow_log: slow_log_path, set_long, set_slow_log
                   \* and the result of read_file_appended_segment
    lpc            \* collect_mysql_slow_log: the statement the run is at

negVars == <<policy, probe, result, npc>>

cfgVars == <<scheduler, collect_level, level1_config, run_id>>

driverVars == <<pc, cycle, attempt, attempts, payload, record, emitted, timer>>

schedVars == <<scheduler, collect_level, level1_config, run_id, pc, cycle, attempt,
               attempts, payload, record, emitted, timer, threads, channels, server,
               server0>>

fpVars == <<sql, fingerprint, refingerprint>>

aggVars == <<entries, digests>>

pgVars == <<content, parsed>>

alertVars == <<error_lines, alerts>>

jitVars == <<base_secs, jitter_pct, now_ms, sleep_for>>

segVars == <<log_len, initial_offset, max_slow_log_bytes, segment>>

runVars == <<l1cfg, mysql, mysql0, statements, report, locals, lpc>>

pureVars ==
    <<fpc, sql, fingerprint, refingerprint, entries, digests, content, parsed,
      error_lines, alerts, base_secs, jitter_pct, now_ms, sleep_for, log_len,
      initial_offset, max_slow_log_bytes, segment, l1cfg, mysql, mysql0, statements,
      report, locals, lpc>>

vars == <<policy, probe, result, npc, scheduler, collect_level, level1_config, run_id,
          pc, cycle, attempt, attempts, payload, record, emitted, timer, threads,
          channels, server, server0, fpc, sql, fingerprint, refingerprint, entries,
          digests, content, parsed, error_lines, alerts, base_secs, jitter_pct,
          now_ms, sleep_for, log_len, initial_offset, max_slow_log_bytes, segment,
          l1cfg, mysql, mysql0, statements, report, locals, lpc>>

\* Option<T>: None is the empty sequence, Some(x) the one-element sequence
None == <<>>

Some(x) == <<x>>

(***************************************************************************)
(* collection.rs: levels, policy, probe                                    *)
(***************************************************************************)

\* enum CollectionLevel, ordered by declaration (derive(PartialOrd, Ord))
Level0 == 0
Level1 == 1
Level2 == 2
Level3 == 3

CollectionLevel == {Level0, Level1, Level2, Level3}

ALL_DESC == <<Level3, Level2, Level1, Level0>>

CollectionPolicy ==
    [preferred_level : CollectionLevel,
     max_accepted_level : CollectionLevel,
     expert_mode_enabled : BOOLEAN]

DefaultPolicy ==
    [preferred_level |-> Level3,
     max_accepted_level |-> Level2,
     expert_mode_enabled |-> FALSE]

CapabilityProbe ==
    [has_mysql_status_access : BOOLEAN,
     has_mysql_variables_access : BOOLEAN,
     has_information_schema_access : BOOLEAN,
     has_replication_status_access : BOOLEAN,
     has_os_metrics_access : BOOLEAN,
     can_enable_slow_log_hot_switch : BOOLEAN,
     can_read_slow_log : BOOLEAN,
     can_read_error_log : BOOLEAN,
     performance_schema_enabled : BOOLEAN,
     has_performance_schema_access : BOOLEAN,
     has_sys_schema_access : BOOLEAN,
     can_capture_tcpdump_short_window : BOOLEAN,
     can_capture_perf_short_window : BOOLEAN,
     can_capture_strace_short_window : BOOLEAN,
     can_sample_innodb_status_high_frequency : BOOLEAN]

DefaultProbe ==
    [has_mysql_status_access |-> FALSE,
     has_mysql_variables_access |-> FALSE,
     has_information_schema_access |-> FALSE,
     has_replication_status_access |-> FALSE,
     has_os_metrics_access |-> FALSE,
     can_enable_slow_log_hot_switch |-> FALSE,
     can_read_slow_log |-> FALSE,
     can_read_error_log |-> FALSE,
     performance_schema_enabled |-> FALSE,
     has_performance_schema_access |-> FALSE,
     has_sys_schema_access |-> FALSE,
     can_capture_tcpdump_short_window |-> FALSE,
     can_capture_perf_short_window |-> FALSE,
     can_capture_strace_short_window |-> FALSE,
     can_sample_innodb_status_high_frequency |-> FALSE]

NoResult == [selected_level |-> Level0, evaluations |-> <<>>, tasks |-> <<>>]

\* reasons.push(msg) under `if !flag`
PushUnless(flag, msg) == IF flag THEN <<>> ELSE <<msg>>

Level0Reasons(p) ==
    PushUnless(p.has_mysql_status_access, "missing SHOW GLOBAL STATUS access")
    \o PushUnless(p.has_mysql_variables_access, "missing SHOW VARIABLES access")
    \o PushUnless(p.has_information_schema_access, "missing INFORMATION_SCHEMA access")
    \o PushUnless(p.has_replication_status_access, "missing replication status access")
    \o PushUnless(p.has_os_metrics_access,
                  "missing OS-level metrics access (/proc, vmstat, iostat, sar)")

Level1Reasons(p) ==
    PushUnless(p.can_enable_slow_log_hot_switch, "cannot hot-enable slow log")
    \o PushUnless(p.can_read_slow_log, "cannot collect slow log for digest aggregation")
    \o PushUnless(p.can_read_error_log, "cannot collect error log")

Level2Reasons(p) ==
    PushUnless(p.performance_schema_enabled, "performance_schema is disabled")
    \o PushUnless(p.has_performance_schema_access, "missing performance_schema read access")

\* mutant: every deep sampler is required
Level3ReasonsEverySampler(pol, p) ==
    PushUnless(pol.expert_mode_enabled, "expert mode is disabled by policy")
    \o PushUnless(p.can_sample_innodb_status_high_frequency,
                  "cannot sample InnoDB status at high frequency")
    \o PushUnless(p.can_capture_tcpdump_short_window
                    /\ p.can_capture_perf_short_window
                    /\ p.can_capture_strace_short_window,
                  "no short-window deep sampler available (tcpdump/perf/strace)")

Level3Reasons(pol, p) ==
    PushUnless(pol.expert_mode_enabled, "expert mode is disabled by policy")
    \o PushUnless(p.can_sample_innodb_status_high_frequency,
                  "cannot sample InnoDB status at high frequency")
    \o PushUnless(p.can_capture_tcpdump_short_window
                    \/ p.can_capture_perf_short_window
                    \/ p.can_capture_strace_short_window,
                  "no short-window deep sampler available (tcpdump/perf/strace)")

\* mutant: Level2 forgets to extend its reasons with Level1's
RECURSIVE LevelReasonsNoCascade(_, _, _)
LevelReasonsNoCascade(level, pol, p) ==
    CASE level = Level0 -> Level0Reasons(p)
      [] level = Level1 -> LevelReasonsNoCascade(Level0, pol, p) \o Level1Reasons(p)
      [] level = Level2 -> Level2Reasons(p)
      [] level = Level3 -> LevelReasonsNoCascade(Level2, pol, p) \o Level3Reasons(pol, p)

\* mutant: Level3 forgets to extend its reasons with Level2's
RECURSIVE LevelReasonsLevel3Alone(_, _, _)
LevelReasonsLevel3Alone(level, pol, p) ==
    CASE level = Level0 -> Level0Reasons(p)
      [] level = Level1 -> LevelReasonsLevel3Alone(Level0, pol, p) \o Level1Reasons(p)
      [] level = Level2 -> LevelReasonsLevel3Alone(Level1, pol, p) \o Level2Reasons(p)
      [] level = Level3 -> Level3Reasons(pol, p)

\* mutant: a level pushes its own reasons before it extends with the lower level's
RECURSIVE LevelReasonsOwnFirst(_, _, _)
LevelReasonsOwnFirst(level, pol, p) ==
    CASE level = Level0 -> Level0Reasons(p)
      [] level = Level1 -> Level1Reasons(p) \o LevelReasonsOwnFirst(Level0, pol, p)
      [] level = Level2 -> Level2Reasons(p) \o LevelReasonsOwnFirst(Level1, pol, p)
      [] level = Level3 -> Level3Reasons(pol, p) \o LevelReasonsOwnFirst(Level2, pol, p)

\* the `match level` of evaluate_level: the reasons vector it builds
RECURSIVE LevelReasons(_, _, _)
LevelReasons(level, pol, p) ==
    CASE level = Level0 -> Level0Reasons(p)
      [] level = Level1 -> LevelReasons(Level0, pol, p) \o Level1Reasons(p)
      [] level = Level2 -> LevelReasons(Level1, pol, p) \o Level2Reasons(p)
      [] level = Level3 -> LevelReasons(Level2, pol, p) \o Level3Reasons(pol, p)

evaluate_level(level, pol, p) ==
    LET reasons == LevelReasons(level, pol, p)
    IN  [level |-> level, ok |-> reasons = <<>>, reasons |-> reasons]

(***************************************************************************)
(* collection.rs: task manifest                                            *)
(***************************************************************************)

Task(level, name, source) == [level |-> level, name |-> name, source |-> source]

level0_tasks ==
    << Task(Level0, "global_status", "SHOW GLOBAL STATUS"),
       Task(Level0, "global_variables", "SHOW VARIABLES"),
       Task(Level0, "schema_storage", "INFORMATION_SCHEMA.TABLES/STATISTICS"),
       Task(Level0, "replication_status", "SHOW REPLICA/SLAVE STATUS"),
       Task(Level0, "os_basic_metrics", "/proc + vmstat/iostat/sar") >>

level1_tasks ==
    << Task(Level1, "slow_log_window", "slow_query_log"),
       Task(Level1, "slow_log_digest", "slow_query_log digest"),
       Task(Level1, "error_log_alerts", "error log") >>

level2_tasks(p) ==
    << Task(Level2, "statement_summary",
            "performance_schema.events_statements_summary_by_digest"),
       Task(Level2, "wait_events", "performance_schema wait event tables"),
       Task(Level2, "metadata_locks", "performance_schema.metadata_locks"),
       Task(Level2, "transaction_lock_views", "performance_schema") >>
    \o (IF p.has_sys_schema_access
        THEN << Task(Level2, "sys_schema_helpers", "sys schema") >>
        ELSE <<>>)

level3_tasks ==
    << Task(Level3, "tcpdump_short_window", "tcpdump"),
       Task(Level3, "perf_or_strace_short_window", "perf/strace"),
       Task(Level3, "innodb_status_hf", "SHOW ENGINE INNODB STATUS") >>

\* mutant: a level's manifest holds its own tasks only
tasks_of_level_only(level, p) ==
    IF level = Level0 THEN level0_tasks
    ELSE IF level = Level1 THEN level1_tasks
    ELSE IF level = Level2 THEN level2_tasks(p)
    ELSE level3_tasks

tasks_for_level(level, p) ==
    level0_tasks
    \o (IF level >= Level1 THEN level1_tasks ELSE <<>>)
    \o (IF level >= Level2 THEN level2_tasks(p) ELSE <<>>)
    \o (IF level >= Level3 THEN level3_tasks ELSE <<>>)

(***************************************************************************)
(* collection.rs: negotiate_collection_level                               *)
(***************************************************************************)

LevelMin(a, b) == IF a <= b THEN a ELSE b

LevelMax(a, b) == IF a >= b THEN a ELSE b

\* mutant: the clamp takes the larger of the two policy levels
NegotiationTargetMax(pol) == LevelMax(pol.preferred_level, pol.max_accepted_level)

\* mutant: the target is the preferred level, whatever the customer accepts
NegotiationTargetPreferred(pol) == pol.preferred_level

\* let target = policy.preferred_level.min(policy.max_accepted_level)
NegotiationTarget(pol) == LevelMin(pol.preferred_level, pol.max_accepted_level)

\* mutant: the guard `selected == Level0` is dropped, so a lower ok level overwrites
SelectStepOverwrite(selected, level, evaluation) ==
    IF evaluation.ok THEN level ELSE selected

\* if selected == CollectionLevel::Level0 && evaluation.ok { selected = level; }
SelectStep(selected, level, evaluation) ==
    IF selected = Level0 /\ evaluation.ok THEN level ELSE selected

\* mutant: the loop ends at the first level that is ok
RECURSIVE NegotiateLoopBreak(_, _, _, _, _)
NegotiateLoopBreak(i, target, pol, p, acc) ==
    IF i > Len(ALL_DESC) THEN acc
    ELSE LET level == ALL_DESC[i]
         IN  IF level > target
             THEN NegotiateLoopBreak(i + 1, target, pol, p, acc)
             ELSE LET evaluation == evaluate_level(level, pol, p)
                      pushed == [selected |-> SelectStep(acc.selected, level, evaluation),
                                 evaluations |-> Append(acc.evaluations, evaluation)]
                  IN  IF evaluation.ok THEN pushed
                      ELSE NegotiateLoopBreak(i + 1, target, pol, p, pushed)

\* the `for level in ALL_DESC` loop, from index i on, carrying (selected, evaluations)
RECURSIVE NegotiateLoop(_, _, _, _, _)
NegotiateLoop(i, target, pol, p, acc) ==
    IF i > Len(ALL_DESC) THEN acc
    ELSE LET level == ALL_DESC[i]
         IN  IF level > target
             THEN NegotiateLoop(i + 1, target, pol, p, acc)
             ELSE LET evaluation == evaluate_level(level, pol, p)
                  IN  NegotiateLoop(i + 1, target, pol, p,
                        [selected |-> SelectStep(acc.selected, level, evaluation),
                         evaluations |-> Append(acc.evaluations, evaluation)])

negotiate_collection_level(pol, p) ==
    LET target == NegotiationTarget(pol)
        looped == NegotiateLoop(1, target, pol, p,
                                [selected |-> Level0, evaluations |-> <<>>])
        level0_ok == \E k \in 1..Len(looped.evaluations) :
                        looped.evaluations[k].level = Level0 /\ looped.evaluations[k].ok
        selected == IF ~level0_ok THEN Level0 ELSE looped.selected
    IN  [selected_level |-> selected,
         evaluations |-> looped.evaluations,
         tasks |-> tasks_for_level(selected, p)]

(***************************************************************************)
(* pipeline.rs / main.rs: scheduler configuration                          *)
(***************************************************************************)

\* u32::MAX, scaled down: retry_times and cycle are u32
U32_MAX == 2

\* cycles explored when the loop has no exit of its own (Daemon, max_cycles None)
MaxCycles == 2

\* Duration::from_secs(scheduler.timeout_secs), in ticks
TimeoutTicks == 1

\* Duration::from_millis(scheduler.retry_backoff_ms), in ticks
BackoffTicks == 1

\* the largest jittered_interval(interval_secs, jitter_pct), in ticks
MaxIntervalTicks == 1

\* Duration::from_secs(config.slow_log_window_secs), in ticks
WindowTicks == 1

\* config.slow_log_long_query_time_secs in microseconds, as "{:.6}" prints it
LongQueryTimeMicros == 200000

\* long_query_time values the server may hold before the collector starts (microseconds)
ServerLongQueryTimes == {10000000}

RunMode == {"Once", "Daemon"}

SchedulerConfig ==
    [mode : RunMode,
     retry_times : 0..U32_MAX,
     max_cycles : {None} \cup {Some(n) : n \in 0..MaxCycles}]

DefaultSchedulerConfig == [mode |-> "Once", retry_times |-> 1, max_cycles |-> None]

Level1CollectorConfig ==
    [enable_slow_log_hot_switch : BOOLEAN,
     restore_slow_log_settings : BOOLEAN]

DefaultLevel1CollectorConfig ==
    [enable_slow_log_hot_switch |-> TRUE, restore_slow_log_settings |-> TRUE]

\* pipeline.rs new_run_id: format!("run-{now}-{pid}") for a clock reading and a
\* process id
new_run_id(now, pid) == <<"run", now, pid>>

\* the run ids of two processes started at different times
RunIds == {new_run_id(now, 1) : now \in {1, 2}}

\* mutant: plain wrapping addition instead of saturating_add
WrappingAdd(a, b) == (a + b) % (U32_MAX + 1)

\* u32::saturating_add
saturating_add(a, b) == IF a + b > U32_MAX THEN U32_MAX ELSE a + b

\* let total_attempts = scheduler.retry_times.saturating_add(1)
total_attempts == saturating_add(scheduler.retry_times, 1)

\* the error strings run_with_timeout makes up itself
TimeoutError == [text |-> "collection timed out", worker |-> 0]

DisconnectedError == [text |-> "collection worker disconnected", worker |-> 0]

\* attempts.iter().rev().find_map(|it| it.error.clone())
RECURSIVE last_error(_)
last_error(traces) ==
    IF traces = <<>> THEN None
    ELSE IF traces[Len(traces)].error # None THEN traces[Len(traces)].error
    ELSE last_error(SubSeq(traces, 1, Len(traces) - 1))

\* the thread and channel of the run_with_timeout call the driver is blocked in
cur == <<cycle, attempt>>

\* a map without the entry of key k
Without(f, k) == [x \in DOMAIN f \ {k} |-> f[x]]

\* level1.rs is_truthy: the spellings that lower-case to "on", "1", "true", "yes"
is_truthy(value) ==
    value \in {"ON", "On", "on", "1", "TRUE", "True", "true", "YES", "Yes", "yes"}

(***************************************************************************)
(* level1.rs: normalize_sql_fingerprint.  A string is the sequence of its  *)
(* characters, each a one-character string.                                *)
(***************************************************************************)

\* longest SQL text enumerated
MaxSqlLen == 5

\* all sequences over S of length at most n
SeqsUpTo(S, n) == UNION {[1..k -> S] : k \in 0..n}

\* the characters the enumerated SQL texts are made of: a letter in both cases, a
\* digit, the dot, the placeholder, both quote characters and a whitespace
SqlAlphabet == {"a", "A", "1", ".", "?", "'", "\"", " "}

\* char::is_ascii_digit
is_ascii_digit(ch) == ch \in {"0", "1", "2", "3", "4", "5", "6", "7", "8", "9"}

\* char::is_whitespace, for the whitespace of log text
is_whitespace(ch) == ch \in {" ", "\t", "\n", "\r"}

AsciiUpper ==
    <<"A", "B", "C", "D", "E", "F", "G", "H", "I", "J", "K", "L", "M",
      "N", "O", "P", "Q", "R", "S", "T", "U", "V", "W", "X", "Y", "Z">>

AsciiLower ==
    <<"a", "b", "c", "d", "e", "f", "g", "h", "i", "j", "k", "l", "m",
      "n", "o", "p", "q", "r", "s", "t", "u", "v", "w", "x", "y", "z">>

\* char::to_ascii_lowercase
to_ascii_lowercase(ch) ==
    IF \E k \in 1..Len(AsciiUpper) : AsciiUpper[k] = ch
    THEN AsciiLower[CHOOSE k \in 1..Len(AsciiUpper) : AsciiUpper[k] = ch]
    ELSE ch

\* the state of the scan before the first character
ScanStart ==
    [out |-> <<>>, in_single_quote |-> FALSE, in_double_quote |-> FALSE,
     prev_space |-> FALSE]

\* mutant: the closing quote of a literal is kept instead of the placeholder
CloseLiteralKeepQuote(st) ==
    [st EXCEPT !.in_single_quote = FALSE, !.in_double_quote = FALSE,
               !.out = Append(@, "'"), !.prev_space = FALSE]

\* mutant: the closing quote of a literal pushes nothing
CloseLiteralNoPlaceholder(st) ==
    [st EXCEPT !.in_single_quote = FALSE, !.in_double_quote = FALSE,
               !.prev_space = FALSE]

\* the closing quote of a literal: the flag is cleared and one '?' is pushed
CloseLiteral(st) ==
    [st EXCEPT !.in_single_quote = FALSE, !.in_double_quote = FALSE,
               !.out = Append(@, "?"), !.prev_space = FALSE]

\* while let Some(next) = chars.peek(): the index of the first character from i on
\* that is neither a digit nor '.'
RECURSIVE NumberEnd(_, _)
NumberEnd(text, i) ==
    IF i <= Len(text) /\ (is_ascii_digit(text[i]) \/ text[i] = ".")
    THEN NumberEnd(text, i + 1)
    ELSE i

\* one turn of the while-let loop over chars at character i with scan state st:
\* the index of the next character to read and the state after the turn
FingerprintStep(text, i, st) ==
    LET ch == text[i] IN
    IF st.in_single_quote
    THEN [i |-> i + 1, st |-> IF ch = "'" THEN CloseLiteral(st) ELSE st]
    ELSE IF st.in_double_quote
    THEN [i |-> i + 1, st |-> IF ch = "\"" THEN CloseLiteral(st) ELSE st]
    ELSE IF ch = "'"
    THEN [i |-> i + 1, st |-> [st EXCEPT !.in_single_quote = TRUE]]
    ELSE IF ch = "\""
    THEN [i |-> i + 1, st |-> [st EXCEPT !.in_double_quote = TRUE]]
    ELSE IF is_ascii_digit(ch)
    THEN [i |-> NumberEnd(text, i + 1),
          st |-> [st EXCEPT !.out = Append(@, "?"), !.prev_space = FALSE]]
    ELSE IF is_whitespace(ch)
    THEN [i |-> i + 1,
          st |-> IF st.prev_space THEN st
                 ELSE [st EXCEPT !.out = Append(@, " "), !.prev_space = TRUE]]
    ELSE [i |-> i + 1,
          st |-> [st EXCEPT !.out = Append(@, to_ascii_lowercase(ch)),
                            !.prev_space = FALSE]]

\* the turn of the while-let loop for character i, if the iterator has not already
\* moved past it; it is the next character the iterator yields
FingerprintTurn(text, i, it) ==
    IF i < it.i THEN it ELSE FingerprintStep(text, i, it.st)

\* the turns for characters lo..hi in order; the range is halved at each level and
\* the first half is finished (its index read) before the second half is entered
RECURSIVE FingerprintTurns(_, _, _, _)
FingerprintTurns(text, lo, hi, it) ==
    IF lo > hi THEN it
    ELSE IF lo = hi THEN FingerprintTurn(text, lo, it)
    ELSE LET mid == (lo + hi) \div 2
             first == FingerprintTurns(text, lo, mid, it)
         IN  IF first.i > lo THEN FingerprintTurns(text, mid + 1, hi, first) ELSE first

\* the while-let loop over chars: out after the last character
FingerprintScan(text) ==
    FingerprintTurns(text, 1, Len(text), [i |-> 1, st |-> ScanStart]).st.out

\* str::split_whitespace reading character i: words are the maximal runs of
\* non-whitespace characters so far, word is the run being read
SplitTurn(text, i, acc) ==
    IF is_whitespace(text[i])
    THEN [words |-> IF acc.word = <<>> THEN acc.words ELSE Append(acc.words, acc.word),
          word |-> <<>>]
    ELSE [acc EXCEPT !.word = Append(@, text[i])]

RECURSIVE SplitTurns(_, _, _, _)
SplitTurns(text, lo, hi, acc) ==
    IF lo > hi THEN acc
    ELSE IF lo = hi THEN SplitTurn(text, lo, acc)
    ELSE LET mid == (lo + hi) \div 2
             first == SplitTurns(text, lo, mid, acc)
         IN  IF Len(first.words) >= 0 THEN SplitTurns(text, mid + 1, hi, first) ELSE first

\* str::split_whitespace
split_whitespace(text) ==
    LET acc == SplitTurns(text, 1, Len(text), [words |-> <<>>, word |-> <<>>])
    IN  IF acc.word = <<>> THEN acc.words ELSE Append(acc.words, acc.word)

\* words lo..hi with one space between neighbours
RECURSIVE JoinRange(_, _, _)
JoinRange(words, lo, hi) ==
    IF lo = hi THEN words[lo]
    ELSE LET mid == (lo + hi) \div 2
         IN  JoinRange(words, lo, mid) \o <<" ">> \o JoinRange(words, mid + 1, hi)

\* [&str]::join(" ")
join_space(words) == IF words = <<>> THEN <<>> ELSE JoinRange(words, 1, Len(words))

normalize_sql_fingerprint(text) ==
    join_space(split_whitespace(FingerprintScan(text)))

\* the statement of the test should_normalize_sql_fingerprint
ExampleSql ==
    <<"S", "E", "L", "E", "C", "T", " ", "*", " ", "F", "R", "O", "M", " ",
      "t", " ", "W", "H", "E", "R", "E", " ", "u", "s", "e", "r", "_", "i",
      "d", " ", "=", " ", "1", "2", "3", " ", "A", "N", "D", " ", "n", "a",
      "m", "e", " ", "=", " ", "\"", "a", "l", "i", "c", "e", "\"", " ", "A",
      "N", "D", " ", "s", "c", "o", "r", "e", " ", ">", " ", "1", ".", "5">>

\* the fingerprint that test expects
ExampleFingerprint ==
    <<"s", "e", "l", "e", "c", "t", " ", "*", " ", "f", "r", "o", "m", " ",
      "t", " ", "w", "h", "e", "r", "e", " ", "u", "s", "e", "r", "_", "i",
      "d", " ", "=", " ", "?", " ", "a", "n", "d", " ", "n", "a", "m", "e",
      " ", "=", " ", "?", " ", "a", "n", "d", " ", "s", "c", "o", "r", "e",
      " ", ">", " ", "?">>

(***************************************************************************)
(* level1.rs: aggregate_slow_sql_digests.  Times are whole nanoseconds;    *)
(* an average is kept as the fraction total / count.                       *)
(***************************************************************************)

\* most entries in one enumerated Vec<SlowLogEntry>
MaxEntries == 3

\* statements of parsed entries: two that differ only in a number, the same in
\* upper case, and one of another shape
SqlSamples == {<<"a", "=", "1">>, <<"a", "=", "2">>, <<"A", "=", "1">>, <<"b">>}

\* query times of parsed entries: 0.08 s, 0.12 s, 0.16 s, and 0.16 s plus 400 ns
QueryTimeSamples == {80000000, 120000000, 160000000, 160000400}

\* struct SlowLogEntry
SlowLogEntry ==
    [sql : SqlSamples, query_time_secs : QueryTimeSamples, lock_time_secs : {2000000},
     rows_sent : {1}, rows_examined : {90}]

\* Agg::default()
DefaultAgg ==
    [sample_sql |-> <<>>, count |-> 0, total_query_time_secs |-> 0,
     total_lock_time_secs |-> 0, total_rows_sent |-> 0, total_rows_examined |-> 0]

\* mutant: entries are grouped by their raw statement
GroupKeyRawSql(entry) == entry.sql

\* the key an entry is grouped under
GroupKey(entry) == normalize_sql_fingerprint(entry.sql)

\* mutant: every entry of a group replaces the sample
AddEntryLastSample(grouped, entry) ==
    LET key == GroupKey(entry)
        agg == IF key \in DOMAIN grouped THEN grouped[key] ELSE DefaultAgg
        updated ==
            [sample_sql |-> entry.sql,
             count |-> agg.count + 1,
             total_query_time_secs |-> agg.total_query_time_secs + entry.query_time_secs,
             total_lock_time_secs |-> agg.total_lock_time_secs + entry.lock_time_secs,
             total_rows_sent |-> agg.total_rows_sent + entry.rows_sent,
             total_rows_examined |-> agg.total_rows_examined + entry.rows_examined]
    IN  (key :> updated) @@ grouped

\* the body of `for entry in entries`: grouped.entry(fingerprint).or_default(),
\* then the sample and the sums
AddEntry(grouped, entry) ==
    LET key == GroupKey(entry)
        agg == IF key \in DOMAIN grouped THEN grouped[key] ELSE DefaultAgg
        updated ==
            [sample_sql |-> IF agg.sample_sql = <<>> THEN entry.sql ELSE agg.sample_sql,
             count |-> agg.count + 1,
             total_query_time_secs |-> agg.total_query_time_secs + entry.query_time_secs,
             total_lock_time_secs |-> agg.total_lock_time_secs + entry.lock_time_secs,
             total_rows_sent |-> agg.total_rows_sent + entry.rows_sent,
             total_rows_examined |-> agg.total_rows_examined + entry.rows_examined]
    IN  (key :> updated) @@ grouped

\* the HashMap after the first n entries
RECURSIVE GroupEntries(_, _)
GroupEntries(list, n) ==
    IF n = 0 THEN <<>> ELSE AddEntry(GroupEntries(list, n - 1), list[n])

\* the closure of .map(): one SlowSqlDigest per key of the HashMap
ToDigest(key, agg) ==
    [fingerprint |-> key,
     sample_sql |-> agg.sample_sql,
     count |-> agg.count,
     total_query_time_secs |-> agg.total_query_time_secs,
     avg_query_time_secs |-> IF agg.count = 0 THEN <<0, 1>>
                             ELSE <<agg.total_query_time_secs, agg.count>>,
     total_lock_time_secs |-> agg.total_lock_time_secs,
     total_rows_sent |-> agg.total_rows_sent,
     total_rows_examined |-> agg.total_rows_examined]

\* the orders HashMap::into_iter may yield the keys in
IterationOrders(keys) ==
    {order \in [1..Cardinality(keys) -> keys] :
        \A a, b \in 1..Cardinality(keys) : a # b => order[a] # order[b]}

\* (total_query_time_secs * 1_000_000.0) as u64: whole microseconds, the rest cut off
TotalMicros(digest) == digest.total_query_time_secs \div 1000

\* mutant: the totals are compared as they are, not cut to microseconds
SortsBeforeExactTotal(a, b) ==
    \/ a.total_query_time_secs > b.total_query_time_secs
    \/ /\ a.total_query_time_secs = b.total_query_time_secs
       /\ a.count > b.count

\* the sort key (Reverse(total microseconds), Reverse(count)): a sorts strictly
\* before b
SortsBefore(a, b) ==
    \/ TotalMicros(a) > TotalMicros(b)
    \/ /\ TotalMicros(a) = TotalMicros(b)
       /\ a.count > b.count

\* x put into an already sorted list behind everything that does not sort after it
InsertSorted(sorted, x) ==
    LET behind == {k \in 1..Len(sorted) : SortsBefore(x, sorted[k])}
        at == IF behind = {} THEN Len(sorted) + 1
              ELSE CHOOSE k \in behind : \A j \in behind : k <= j
    IN  SubSeq(sorted, 1, at - 1) \o <<x>> \o SubSeq(sorted, at, Len(sorted))

\* Vec::sort_by_key, a stable sort: the first n elements of list, sorted
RECURSIVE sort_by_key(_, _)
sort_by_key(list, n) ==
    IF n = 0 THEN <<>> ELSE InsertSorted(sort_by_key(list, n - 1), list[n])

\* the digests collected from the HashMap in this order of its keys, then sorted
CollectDigests(grouped, order) ==
    LET collected == [k \in 1..Len(order) |-> ToDigest(order[k], grouped[order[k]])]
    IN  sort_by_key(collected, Len(collected))

\* the results aggregate_slow_sql_digests can return, one per iteration order of
\* the HashMap
aggregate_slow_sql_digests(list) ==
    LET grouped == GroupEntries(list, Len(list))
    IN  {CollectDigests(grouped, order) : order \in IterationOrders(DOMAIN grouped)}

(***************************************************************************)
(* level1.rs: parse_postgres_statement_log_entries.  Durations are whole   *)
(* nanoseconds.                                                            *)
(***************************************************************************)

\* most lines in one enumerated log text
MaxLines == 3

\* the pattern stands in the text at index k
MatchesAt(text, pattern, k) == \A j \in 1..Len(pattern) : text[k + j - 1] = pattern[j]

\* str::find: the index of the first occurrence of pattern in text, 0 when there
\* is none
find(text, pattern) ==
    LET hits == {k \in 1..(Len(text) - Len(pattern) + 1) : MatchesAt(text, pattern, k)}
    IN  IF hits = {} THEN 0 ELSE CHOOSE k \in hits : \A j \in hits : k <= j

\* text[from..]
StrFrom(text, from) == SubSeq(text, from, Len(text))

\* str::trim_start
trim_start(text) ==
    LET solid == {k \in 1..Len(text) : ~is_whitespace(text[k])}
    IN  IF solid = {} THEN <<>>
        ELSE StrFrom(text, CHOOSE k \in solid : \A j \in solid : k <= j)

\* str::trim
trim(text) ==
    LET solid == {k \in 1..Len(text) : ~is_whitespace(text[k])}
    IN  IF solid = {} THEN <<>>
        ELSE SubSeq(text, CHOOSE k \in solid : \A j \in solid : k <= j,
                          CHOOSE k \in solid : \A j \in solid : k >= j)

\* str::trim_end_matches(',')
trim_end_commas(text) ==
    LET solid == {k \in 1..Len(text) : text[k] # ","}
    IN  IF solid = {} THEN <<>>
        ELSE SubSeq(text, 1, CHOOSE k \in solid : \A j \in solid : k >= j)

\* str::to_ascii_lowercase
str_to_ascii_lowercase(text) == [k \in 1..Len(text) |-> to_ascii_lowercase(text[k])]

Digits == <<"0", "1", "2", "3", "4", "5", "6", "7", "8", "9">>

DigitValue(ch) == (CHOOSE k \in 1..10 : Digits[k] = ch) - 1

\* the number written by the first n of these digits
RECURSIVE DecimalValue(_, _)
DecimalValue(digits, n) ==
    IF n = 0 THEN 0 ELSE DecimalValue(digits, n - 1) * 10 + DigitValue(digits[n])

\* str::parse::<f64> on the plain decimals of the enumerated lines (digits, then
\* at most a dot and up to three digits): Some(the value in thousandths); None
\* for a word that is no number
parse_f64(word) ==
    LET dot == find(word, <<".">>)
        whole == IF dot = 0 THEN word ELSE SubSeq(word, 1, dot - 1)
        fraction == IF dot = 0 THEN <<>> ELSE StrFrom(word, dot + 1)
        padded == fraction \o SubSeq(<<"0", "0", "0">>, 1, 3 - Len(fraction))
    IN  IF /\ Len(whole) + Len(fraction) > 0
           /\ Len(fraction) <= 3
           /\ \A k \in 1..Len(whole) : is_ascii_digit(whole[k])
           /\ \A k \in 1..Len(fraction) : is_ascii_digit(fraction[k])
        THEN Some(DecimalValue(whole, Len(whole)) * 1000 + DecimalValue(padded, 3))
        ELSE None

\* the match on the unit: a value in thousandths of the unit, as nanoseconds
UnitToNanos(thousandths, unit) ==
    IF unit \in {<<"s">>, <<"s", "e", "c">>, <<"s", "e", "c", "s">>}
    THEN thousandths * 1000000
    ELSE IF unit = <<"u", "s">> THEN thousandths
    ELSE thousandths * 1000

extract_postgres_duration_secs(line) ==
    LET marker == <<"d", "u", "r", "a", "t", "i", "o", "n", ":">>
        idx == find(str_to_ascii_lowercase(line), marker)
        parts == split_whitespace(trim_start(StrFrom(line, idx + Len(marker))))
        value == IF Len(parts) >= 1 THEN parse_f64(trim_end_commas(parts[1])) ELSE None
        unit == IF Len(parts) >= 2 THEN trim_end_commas(parts[2]) ELSE <<"m", "s">>
    IN  IF idx = 0 \/ value = None THEN None
        ELSE Some(UnitToNanos(value[1], unit))

extract_postgres_statement_sql(line) ==
    LET lower == str_to_ascii_lowercase(line)
        marker == <<"s", "t", "a", "t", "e", "m", "e", "n", "t", ":">>
        idx == find(lower, marker)
        inline == IF idx = 0 THEN <<>> ELSE trim(StrFrom(line, idx + Len(marker)))
        exec == find(lower, <<"e", "x", "e", "c", "u", "t", "e", " ">>)
        tail == IF exec = 0 THEN <<>> ELSE StrFrom(line, exec)
        colon_pos == find(tail, <<":">>)
        prepared == IF colon_pos = 0 THEN <<>> ELSE trim(StrFrom(tail, colon_pos + 1))
    IN  IF inline # <<>> THEN Some(inline)
        ELSE IF prepared # <<>> THEN Some(prepared)
        ELSE None

\* the SlowLogEntry both branches push
PostgresEntry(statement, duration_secs) ==
    [sql |-> statement, query_time_secs |-> duration_secs, lock_time_secs |-> 0,
     rows_sent |-> 0, rows_examined |-> 0]

\* the state of the loop before the first line
ParseStart == [entries |-> <<>>, pending_duration_secs |-> None]

\* mutant: a line without a statement leaves the pending duration in place
ContinuationKeepPending(st, trimmed) ==
    LET statement == extract_postgres_statement_sql(trimmed)
    IN  IF st.pending_duration_secs # None /\ statement # None
        THEN [entries |-> Append(st.entries,
                                 PostgresEntry(statement[1], st.pending_duration_secs[1])),
              pending_duration_secs |-> None]
        ELSE st

\* a line without a duration: pending_duration_secs.take(), and an entry when
\* both the taken duration and a statement are there
Continuation(st, trimmed) ==
    LET statement == extract_postgres_statement_sql(trimmed)
    IN  IF st.pending_duration_secs # None /\ statement # None
        THEN [entries |-> Append(st.entries,
                                 PostgresEntry(statement[1], st.pending_duration_secs[1])),
              pending_duration_secs |-> None]
        ELSE [st EXCEPT !.pending_duration_secs = None]

\* the body of `for line in content.lines()`
ParseLine(st, line) ==
    LET trimmed == trim(line)
        duration == extract_postgres_duration_secs(trimmed)
        statement == extract_postgres_statement_sql(trimmed)
    IN  IF trimmed = <<>> THEN st
        ELSE IF duration # None
        THEN IF statement # None
             THEN [entries |-> Append(st.entries, PostgresEntry(statement[1], duration[1])),
                   pending_duration_secs |-> None]
             ELSE [st EXCEPT !.pending_duration_secs = duration]
        ELSE Continuation(st, trimmed)

\* the loop over the first n lines
RECURSIVE ParseLines(_, _)
ParseLines(lines, n) ==
    IF n = 0 THEN ParseStart ELSE ParseLine(ParseLines(lines, n - 1), lines[n])

parse_postgres_statement_log_entries(lines) == ParseLines(lines, Len(lines)).entries

\* a duration line with an inline statement
LineInline ==
    <<"d", "u", "r", "a", "t", "i", "o", "n", ":", " ", "3", ".", "5", " ", "m",
      "s", " ", " ", "s", "t", "a", "t", "e", "m", "e", "n", "t", ":", " ", "S",
      "E", "L", "E", "C", "T", " ", "1">>

\* a duration line without a statement
LineDuration ==
    <<"L", "O", "G", ":", " ", " ", "d", "u", "r", "a", "t", "i", "o", "n", ":",
      " ", "4", " ", "m", "s">>

\* a duration line in microseconds, without a statement
LineDurationMicros ==
    <<"d", "u", "r", "a", "t", "i", "o", "n", ":", " ", "7", " ", "u", "s">>

\* a continuation line carrying a statement
LineStatement ==
    <<"S", "T", "A", "T", "E", "M", "E", "N", "T", ":", " ", " ", "S", "E", "L",
      "E", "C", "T", " ", "2">>

\* a continuation line of a prepared statement
LineExecute ==
    <<"e", "x", "e", "c", "u", "t", "e", " ", "s", "1", ":", " ", "S", "E", "L",
      "E", "C", "T", " ", "3">>

\* a duration line with an inline prepared statement
LineInlineExecute ==
    <<"d", "u", "r", "a", "t", "i", "o", "n", ":", " ", "0", ".", "2", " ", "s",
      " ", " ", "e", "x", "e", "c", "u", "t", "e", " ", "s", "1", ":", " ", "S", "E",
      "L", "E", "C", "T", " ", "3">>

\* a line with neither a duration nor a statement
LineDetail ==
    <<"D", "E", "T", "A", "I", "L", ":", " ", " ", "x">>

\* a line of whitespace
LineBlank ==
    <<" ", " ">>

\* a statement marker with nothing behind it
LineNoPayload ==
    <<"s", "t", "a", "t", "e", "m", "e", "n", "t", ":">>

\* a statement whose duration is not a number
LineBadDuration ==
    <<"d", "u", "r", "a", "t", "i", "o", "n", ":", " ", "n", "/", "a", " ", "s",
      "t", "a", "t", "e", "m", "e", "n", "t", ":", " ", "S", "E", "L", "E", "C",
      "T", " ", "4">>

\* the lines the enumerated log texts are made of
LineSamples ==
    {LineInline, LineDuration, LineDurationMicros, LineStatement, LineExecute,
     LineInlineExecute, LineDetail, LineBlank, LineNoPayload, LineBadDuration}

(***************************************************************************)
(* level1.rs: extract_error_log_alerts and classify_error_line             *)
(***************************************************************************)

\* most lines in one enumerated error log
MaxErrorLines == 4

\* sample lines kept per category
MaxSampleLines == 3

\* str::contains
contains(text, pattern) ==
    \E k \in 1..(Len(text) - Len(pattern) + 1) : MatchesAt(text, pattern, k)

\* the keywords of `deadlock`
DeadlockKeywords ==
    {<<"d", "e", "a", "d", "l", "o", "c", "k">>}

\* the keywords of `crash_recovery`
CrashRecoveryKeywords ==
    {<<"c", "r", "a", "s", "h", " ", "r", "e", "c", "o", "v", "e", "r", "y">>,
     <<"s", "t", "a", "r", "t", "i", "n", "g", " ", "c", "r", "a", "s", "h", " ",
       "r", "e", "c", "o", "v", "e", "r", "y">>,
     <<"r", "e", "c", "o", "v", "e", "r", "y", " ", "c", "o", "m", "p", "l", "e",
       "t", "e", "d">>,
     <<"d", "a", "t", "a", "b", "a", "s", "e", " ", "s", "y", "s", "t", "e", "m",
       " ", "i", "s", " ", "s", "t", "a", "r", "t", "i", "n", "g", " ", "u", "p">>,
     <<"r", "e", "d", "o", " ", "s", "t", "a", "r", "t", "s", " ", "a", "t">>,
     <<"r", "e", "d", "o", " ", "d", "o", "n", "e", " ", "a", "t">>}

\* the keywords of `purge`
PurgeKeywords ==
    {<<"p", "u", "r", "g", "e">>,
     <<"v", "a", "c", "u", "u", "m">>}

\* the keywords of `replication`
ReplicationKeywords ==
    {<<"r", "e", "p", "l", "i", "c", "a", "t", "i", "o", "n">>,
     <<"r", "e", "p", "l", "i", "c", "a">>,
     <<"s", "l", "a", "v", "e">>,
     <<"r", "e", "l", "a", "y", " ", "l", "o", "g">>,
     <<"g", "r", "o", "u", "p", " ", "r", "e", "p", "l", "i", "c", "a", "t", "i",
       "o", "n">>,
     <<"b", "i", "n", "l", "o", "g">>,
     <<"w", "a", "l", " ", "s", "e", "n", "d", "e", "r">>,
     <<"w", "a", "l", " ", "r", "e", "c", "e", "i", "v", "e", "r">>}

\* the text has one of the keywords
ContainsAny(lower, keywords) == \E keyword \in keywords : contains(lower, keyword)

\* mutant: the tests are an else-if chain, the first category that matches wins
classify_first_match(lower) ==
    IF ContainsAny(lower, DeadlockKeywords) THEN <<"deadlock">>
    ELSE IF ContainsAny(lower, CrashRecoveryKeywords) THEN <<"crash_recovery">>
    ELSE IF ContainsAny(lower, PurgeKeywords) THEN <<"purge">>
    ELSE IF ContainsAny(lower, ReplicationKeywords) THEN <<"replication">>
    ELSE <<>>

\* four separate tests, each pushing its category
classify_error_line(lower) ==
    (IF ContainsAny(lower, DeadlockKeywords) THEN <<"deadlock">> ELSE <<>>)
    \o (IF ContainsAny(lower, CrashRecoveryKeywords) THEN <<"crash_recovery">> ELSE <<>>)
    \o (IF ContainsAny(lower, PurgeKeywords) THEN <<"purge">> ELSE <<>>)
    \o (IF ContainsAny(lower, ReplicationKeywords) THEN <<"replication">> ELSE <<>>)

\* Agg::default() of extract_error_log_alerts
DefaultAlertAgg == [count |-> 0, sample_lines |-> <<>>]

\* mutant: every matching line is kept as a sample
AddCategoryEverySample(grouped, category, line) ==
    LET agg == IF category \in DOMAIN grouped THEN grouped[category] ELSE DefaultAlertAgg
        updated ==
            [count |-> agg.count + 1, sample_lines |-> Append(agg.sample_lines, line)]
    IN  (category :> updated) @@ grouped

\* the body of `for category in classify_error_line(&lower)`
AddCategory(grouped, category, line) ==
    LET agg == IF category \in DOMAIN grouped THEN grouped[category] ELSE DefaultAlertAgg
        updated ==
            [count |-> agg.count + 1,
             sample_lines |-> IF Len(agg.sample_lines) < MaxSampleLines
                              THEN Append(agg.sample_lines, line)
                              ELSE agg.sample_lines]
    IN  (category :> updated) @@ grouped

\* the inner loop over the first n categories of one line
RECURSIVE AddCategories(_, _, _, _)
AddCategories(grouped, categories, n, line) ==
    IF n = 0 THEN grouped
    ELSE AddCategory(AddCategories(grouped, categories, n - 1, line), categories[n], line)

\* the body of `for line in lines`
AddErrorLine(grouped, line) ==
    LET categories == classify_error_line(str_to_ascii_lowercase(line))
    IN  AddCategories(grouped, categories, Len(categories), line)

\* the HashMap after the first n lines
RECURSIVE GroupErrorLines(_, _)
GroupErrorLines(list, n) ==
    IF n = 0 THEN <<>> ELSE AddErrorLine(GroupErrorLines(list, n - 1), list[n])

\* the closure of .map(): one ErrorAlert per key of the HashMap
ToAlert(category, agg) ==
    [category |-> category, count |-> agg.count, sample_lines |-> agg.sample_lines]

\* mutant: the alerts stay in the order the HashMap yields them
InsertAlertUnsorted(sorted, x) == Append(sorted, x)

\* x put into an already sorted list behind every alert whose count is not smaller
InsertAlert(sorted, x) ==
    LET behind == {k \in 1..Len(sorted) : x.count > sorted[k].count}
        at == IF behind = {} THEN Len(sorted) + 1
              ELSE CHOOSE k \in behind : \A j \in behind : k <= j
    IN  SubSeq(sorted, 1, at - 1) \o <<x>> \o SubSeq(sorted, at, Len(sorted))

\* alerts.sort_by_key(|it| Reverse(it.count)), a stable sort: the first n alerts
\* of list, sorted
RECURSIVE SortAlerts(_, _)
SortAlerts(list, n) ==
    IF n = 0 THEN <<>> ELSE InsertAlert(SortAlerts(list, n - 1), list[n])

\* the alerts collected from the HashMap in this order of its keys, then sorted
CollectAlerts(grouped, order) ==
    LET collected == [k \in 1..Len(order) |-> ToAlert(order[k], grouped[order[k]])]
    IN  SortAlerts(collected, Len(collected))

\* the results extract_error_log_alerts can return, one per iteration order of
\* the HashMap
extract_error_log_alerts(list) ==
    LET grouped == GroupErrorLines(list, Len(list))
    IN  {CollectAlerts(grouped, order) : order \in IterationOrders(DOMAIN grouped)}

\* a deadlock, in mixed case
ErrDeadlock ==
    <<"I", "n", "n", "o", "D", "B", ":", " ", "D", "e", "a", "d", "l", "o", "c",
      "k", " ", "f", "o", "u", "n", "d">>

\* a deadlock and a replication keyword on one line
ErrDeadlockReplica ==
    <<"d", "e", "a", "d", "l", "o", "c", "k", " ", "o", "n", " ", "r", "e", "p",
      "l", "i", "c", "a">>

\* two crash-recovery keywords on one line
ErrCrash ==
    <<"S", "t", "a", "r", "t", "i", "n", "g", " ", "c", "r", "a", "s", "h", " ",
      "r", "e", "c", "o", "v", "e", "r", "y">>

\* a purge line
ErrPurge ==
    <<"p", "u", "r", "g", "e", " ", "l", "a", "g", " ", "i", "n", "c", "r", "e",
      "a", "s", "e", "d">>

\* a replication line
ErrWal ==
    <<"L", "O", "G", ":", " ", "w", "a", "l", " ", "r", "e", "c", "e", "i", "v",
      "e", "r", " ", "e", "n", "d", "e", "d">>

\* purge twice and replication once
ErrVacuumBinlog ==
    <<"V", "A", "C", "U", "U", "M", " ", "a", "f", "t", "e", "r", " ", "b", "i",
      "n", "l", "o", "g", " ", "p", "u", "r", "g", "e">>

\* a line of no category
ErrNone ==
    <<"r", "e", "a", "d", "y", " ", "f", "o", "r", " ", "c", "o", "n", "n", "e",
      "c", "t", "i", "o", "n", "s">>

\* the lines the enumerated error logs are made of
ErrorLineSamples ==
    {ErrDeadlock, ErrDeadlockReplica, ErrCrash, ErrPurge,
     ErrWal, ErrVacuumBinlog, ErrNone}

(***************************************************************************)
(* level1.rs: parse_mysql_slow_log_entries.  Times are whole nanoseconds.  *)
(***************************************************************************)
\* bound: the longest slow log tried, in lines
MaxSlowLogLines == 4

starts_with(text, pattern) == Len(text) >= Len(pattern) /\ MatchesAt(text, pattern, 1)

\* str::join with a separator
RECURSIVE join(_, _, _)
join(parts, n, sep) ==
    IF n = 0 THEN <<>>
    ELSE IF n = 1 THEN parts[1]
    ELSE join(parts, n - 1, sep) \o sep \o parts[n]

\* the first whitespace-separated word after "key:", if the key is there
MetricWord(line, key) ==
    LET marker == key \o <<":">>
        idx == find(line, marker)
        words == IF idx = 0 THEN <<>> ELSE split_whitespace(StrFrom(line, idx + Len(marker)))
    IN  IF Len(words) = 0 THEN None ELSE Some(words[1])

\* seconds with up to three decimals, as nanoseconds
extract_f64_metric(line, key) ==
    LET value == MetricWord(line, key)
        number == IF value = None THEN None ELSE parse_f64(value[1])
    IN  IF number = None THEN None ELSE Some(number[1] * 1000000)

extract_u64_metric(line, key) ==
    LET value == MetricWord(line, key)
    IN  IF value # None /\ Len(value[1]) > 0
           /\ \A k \in 1..Len(value[1]) : is_ascii_digit(value[1][k])
        THEN Some(DecimalValue(value[1], Len(value[1])))
        ELSE None

unwrap_or_default(option) == IF option = None THEN 0 ELSE option[1]

\* SlowLogBuilder::default()
SlowLogBuilder ==
    [sql_lines |-> <<>>, query_time_secs |-> 0, lock_time_secs |-> 0,
     rows_sent |-> 0, rows_examined |-> 0]

\* finalize_entry without the test for an empty SQL text
finalize_entry_keep_empty(list, item) ==
    IF item = None THEN list
    ELSE Append(list,
                [sql |-> trim(join(item[1].sql_lines, Len(item[1].sql_lines), <<"\n">>)),
                 query_time_secs |-> item[1].query_time_secs,
                 lock_time_secs |-> item[1].lock_time_secs,
                 rows_sent |-> item[1].rows_sent,
                 rows_examined |-> item[1].rows_examined])

finalize_entry(list, item) ==
    IF item = None THEN list
    ELSE LET text == trim(join(item[1].sql_lines, Len(item[1].sql_lines), <<"\n">>))
         IN  IF text = <<>> THEN list
             ELSE Append(list,
                         [sql |-> text,
                          query_time_secs |-> item[1].query_time_secs,
                          lock_time_secs |-> item[1].lock_time_secs,
                          rows_sent |-> item[1].rows_sent,
                          rows_examined |-> item[1].rows_examined])

TimeMarker ==
    <<"#", " ", "T", "i", "m", "e", ":">>

QueryTimeMarker ==
    <<"Q", "u", "e", "r", "y", "_", "t", "i", "m", "e", ":">>

SetTimestampMarker ==
    <<"S", "E", "T", " ", "t", "i", "m", "e", "s", "t", "a", "m", "p", "=">>

QueryTimeKey ==
    <<"Q", "u", "e", "r", "y", "_", "t", "i", "m", "e">>

LockTimeKey ==
    <<"L", "o", "c", "k", "_", "t", "i", "m", "e">>

RowsSentKey ==
    <<"R", "o", "w", "s", "_", "s", "e", "n", "t">>

RowsExaminedKey ==
    <<"R", "o", "w", "s", "_", "e", "x", "a", "m", "i", "n", "e", "d">>

\* mutant: a value that is missing or no number leaves the field as it was
WithMetricsKeepOld(item, line) ==
    LET keep(option, old) == IF option = None THEN old ELSE option[1]
    IN  [item EXCEPT
            !.query_time_secs = keep(extract_f64_metric(line, QueryTimeKey), @),
            !.lock_time_secs = keep(extract_f64_metric(line, LockTimeKey), @),
            !.rows_sent = keep(extract_u64_metric(line, RowsSentKey), @),
            !.rows_examined = keep(extract_u64_metric(line, RowsExaminedKey), @)]

\* the metrics line: the four values replace those of the record
WithMetrics(item, line) ==
    [item EXCEPT
        !.query_time_secs = unwrap_or_default(extract_f64_metric(line, QueryTimeKey)),
        !.lock_time_secs = unwrap_or_default(extract_f64_metric(line, LockTimeKey)),
        !.rows_sent = unwrap_or_default(extract_u64_metric(line, RowsSentKey)),
        !.rows_examined = unwrap_or_default(extract_u64_metric(line, RowsExaminedKey))]

\* one turn of the loop over the lines; st is [entries, current]
SlowLogLine(st, line) ==
    LET trimmed == trim(line)
    IN  IF starts_with(line, TimeMarker)
        THEN [entries |-> finalize_entry(st.entries, st.current),
              current |-> Some(SlowLogBuilder)]
        ELSE IF st.current = None THEN st
        ELSE IF contains(line, QueryTimeMarker)
        THEN [st EXCEPT !.current = Some(WithMetrics(st.current[1], line))]
        ELSE IF \/ starts_with(trimmed, <<"#">>)
                \/ starts_with(trimmed, SetTimestampMarker)
                \/ trimmed = <<>>
        THEN st
        ELSE [st EXCEPT !.current =
                 Some([st.current[1] EXCEPT !.sql_lines = Append(@, trimmed)])]

\* mutant: a record is open before the first line
RECURSIVE SlowLogLinesOpenRecord(_, _)
SlowLogLinesOpenRecord(lines, n) ==
    IF n = 0 THEN [entries |-> <<>>, current |-> Some(SlowLogBuilder)]
    ELSE SlowLogLine(SlowLogLinesOpenRecord(lines, n - 1), lines[n])

\* the loop over the first n lines, from `current = None`
RECURSIVE SlowLogLines(_, _)
SlowLogLines(lines, n) ==
    IF n = 0 THEN [entries |-> <<>>, current |-> None]
    ELSE SlowLogLine(SlowLogLines(lines, n - 1), lines[n])

parse_mysql_slow_log_entries(lines) ==
    LET st == SlowLogLines(lines, Len(lines))
    IN  finalize_entry(st.entries, st.current)

\* the lines tried
SlowTime ==
    <<"#", " ", "T", "i", "m", "e", ":", " ", "1">>

\* a "# Time:" line behind white space: a comment, not the start of a record
SlowTimeIndented ==
    <<" ", "#", " ", "T", "i", "m", "e", ":", " ", "2">>

SlowUser ==
    <<"#", " ", "U", "s", "e", "r", "@", "H", "o", "s", "t", ":", " ", "a",
      "p", "p">>

SlowMetrics ==
    <<"#", " ", "Q", "u", "e", "r", "y", "_", "t", "i", "m", "e", ":", " ",
      "1", ".", "2", " ", " ", "L", "o", "c", "k", "_", "t", "i", "m", "e",
      ":", " ", "0", ".", "0", "1", " ", "R", "o", "w", "s", "_", "s", "e",
      "n", "t", ":", " ", "1", " ", " ", "R", "o", "w", "s", "_", "e", "x",
      "a", "m", "i", "n", "e", "d", ":", " ", "9", "0">>

\* a metrics line without the row counts
SlowMetricsShort ==
    <<"#", " ", "Q", "u", "e", "r", "y", "_", "t", "i", "m", "e", ":", " ",
      "0", ".", "3", " ", "L", "o", "c", "k", "_", "t", "i", "m", "e", ":",
      " ", "x">>

\* a metrics line whose values are no numbers of their type
SlowMetricsBroken ==
    <<"#", " ", "Q", "u", "e", "r", "y", "_", "t", "i", "m", "e", ":", " ",
      "R", "o", "w", "s", "_", "s", "e", "n", "t", ":", " ", "-", "1", " ",
      "R", "o", "w", "s", "_", "e", "x", "a", "m", "i", "n", "e", "d", ":",
      " ", "7">>

SlowSet ==
    <<"S", "E", "T", " ", "t", "i", "m", "e", "s", "t", "a", "m", "p", "=",
      "1", ";">>

SlowSelect ==
    <<"S", "E", "L", "E", "C", "T", " ", "1">>

\* white space around the statement text
SlowFrom ==
    <<" ", " ", "F", "R", "O", "M", " ", "t", ";", " ", " ">>

SlowBlank == <<" ">>

SlowLogSamples ==
    {SlowTime, SlowTimeIndented, SlowUser, SlowMetrics, SlowMetricsShort,
     SlowMetricsBroken, SlowSet, SlowSelect, SlowFrom, SlowBlank}

(***************************************************************************)
(* level1.rs: read_file_appended_segment.  A file is known by its length;  *)
(* the bytes read are known by their offsets in the file.                  *)
(***************************************************************************)
\* bound: the longest file tried, in bytes
MaxFileLen == 5

\* u64::saturating_sub
saturating_sub(a, b) == IF a >= b THEN a - b ELSE 0

\* u64::min
min(a, b) == IF a <= b THEN a ELSE b

\* read_file_range on a file of length len: seek to start, take end - start
\* bytes, read to the end
read_file_range(len, start, end) ==
    LET taken == min(saturating_sub(end, start), saturating_sub(len, start))
    IN  [k \in 1..taken |-> start + k - 1]

\* read_file_appended_segment without the test of the delta against max_bytes
read_file_appended_segment_uncapped(len, offset_arg, max_bytes) ==
    LET clamped == min(offset_arg, len)
        start == IF len < offset_arg THEN saturating_sub(len, max_bytes) ELSE clamped
    IN  read_file_range(len, start, len)

\* len is what file_len(path) returns
read_file_appended_segment(len, offset_arg, max_bytes) ==
    LET clamped == min(offset_arg, len)
        shrunk == IF len < offset_arg THEN saturating_sub(len, max_bytes) ELSE clamped
        start == IF saturating_sub(len, shrunk) > max_bytes
                 THEN saturating_sub(len, max_bytes)
                 ELSE shrunk
    IN  read_file_range(len, start, len)

(***************************************************************************)
(* level1.rs: collect_mysql_slow_log, one run on a connection nobody else  *)
(* uses.  A statement sent to the server can fail at any time; a fetch     *)
(* that fails or finds no row gives None.  long_query_time is in           *)
(* microseconds, a path is the sequence of its characters.                 *)
(***************************************************************************)
\* the path of a slow log, and a path of white space only
SlowLogFile == <<"/", "s", "l", "o", "w">>

BlankPath == <<" ">>

\* the fields of Level1CollectorConfig that collect_mysql_slow_log reads
SlowLogConfig ==
    [slow_log_path : {None, Some(SlowLogFile), Some(BlankPath)},
     enable_slow_log_hot_switch : BOOLEAN,
     restore_slow_log_settings : BOOLEAN]

\* the global variables of the server the run reads or sets
MysqlVariables ==
    [slow_query_log : {"ON", "OFF"},
     long_query_time : ServerLongQueryTimes,
     slow_query_log_file : {<<>>, SlowLogFile}]

\* Level1CollectionReport::default(), as far as collect_mysql_slow_log writes it
EmptyReport ==
    [previous_slow_query_log |-> None,
     previous_long_query_time |-> None,
     slow_log_path |-> None,
     enabled_for_window |-> FALSE,
     can_enable_slow_log_hot_switch |-> FALSE,
     can_read_slow_log |-> FALSE,
     warnings |-> <<>>]

NoLocals == [slow_log_path |-> None, set_long |-> "none", set_slow_log |-> "none",
             segment |-> "none"]

\* Option::filter(|it| !it.trim().is_empty())
filter_not_blank(option) ==
    IF option # None /\ trim(option[1]) # <<>> THEN option ELSE None

\* Option::or
or(option, other) == IF option # None THEN option ELSE other

\* config.slow_log_path.clone().or(discovered_slow_log_path).filter(..)
resolve_slow_log_path(config, fetched) ==
    filter_not_blank(or(config.slow_log_path, filter_not_blank(fetched)))

\* mutant: a missing path does not end the run
AfterSlowLogPathGoOn(config, path) ==
    IF config.enable_slow_log_hot_switch THEN "set_long_query_time" ELSE "window"

\* let Some(slow_log_path) = slow_log_path else { warn; return }, then
\* `if config.enable_slow_log_hot_switch`
AfterSlowLogPath(config, path) ==
    IF path = None THEN "returned"
    ELSE IF config.enable_slow_log_hot_switch THEN "set_long_query_time"
    ELSE "window"

\* what fetch_mysql_variable(..).ok().flatten() can give for a variable
Fetched(value) == {Some(value), None}

\* a statement sent to the server, its value and whether the server ran it
Statement(name, value, ok) == [name |-> name, value |-> value, ok |-> ok]

UnchangedByRun ==
    /\ UNCHANGED <<l1cfg, mysql0>>
    /\ UNCHANGED <<negVars, schedVars, fpVars, aggVars, pgVars, alertVars, jitVars,
                   segVars>>
    /\ UNCHANGED fpc

\* report.slow_log.previous_slow_query_log = fetch_mysql_variable(conn, "slow_query_log")
FetchSlowQueryLog ==
    /\ lpc = "fetch_slow_query_log"
    /\ \E fetched \in Fetched(mysql.slow_query_log) :
          report' = [report EXCEPT !.previous_slow_query_log = fetched]
    /\ lpc' = "fetch_long_query_time"
    /\ UNCHANGED <<mysql, statements, locals>>
    /\ UnchangedByRun

\* report.slow_log.previous_long_query_time = fetch_mysql_variable(conn, "long_query_time")
FetchLongQueryTime ==
    /\ lpc = "fetch_long_query_time"
    /\ \E fetched \in Fetched(mysql.long_query_time) :
          report' = [report EXCEPT !.previous_long_query_time = fetched]
    /\ lpc' = "fetch_slow_query_log_file"
    /\ UNCHANGED <<mysql, statements, locals>>
    /\ UnchangedByRun

\* the path is looked up and resolved; without one the run warns and returns
ResolveSlowLogPath ==
    /\ lpc = "fetch_slow_query_log_file"
    /\ \E fetched \in Fetched(mysql.slow_query_log_file) :
          LET path == resolve_slow_log_path(l1cfg, fetched)
          IN  /\ locals' = [locals EXCEPT !.slow_log_path = path]
              /\ report' = [report EXCEPT
                    !.slow_log_path = path,
                    !.warnings = IF path = None
                                 THEN Append(@, "slow log path unavailable")
                                 ELSE @]
              /\ lpc' = AfterSlowLogPath(l1cfg, path)
    /\ UNCHANGED <<mysql, statements>>
    /\ UnchangedByRun

\* let set_long = conn.query_drop("SET GLOBAL long_query_time = {:.6}")
SetLongQueryTime ==
    /\ lpc = "set_long_query_time"
    /\ \E ok \in BOOLEAN :
          /\ statements' = Append(statements,
                                  Statement("long_query_time", LongQueryTimeMicros, ok))
          /\ mysql' = IF ok THEN [mysql EXCEPT !.long_query_time = LongQueryTimeMicros]
                      ELSE mysql
          /\ locals' = [locals EXCEPT !.set_long = IF ok THEN "ok" ELSE "err"]
    /\ lpc' = "set_slow_query_log"
    /\ UNCHANGED report
    /\ UnchangedByRun

\* let set_slow_log = conn.query_drop("SET GLOBAL slow_query_log = 'ON'"), then
\* the flags when both are ok, a warning for each that is not
SetSlowQueryLog ==
    /\ lpc = "set_slow_query_log"
    /\ \E ok \in BOOLEAN :
          LET both == ok /\ locals.set_long = "ok"
          IN  /\ statements' = Append(statements, Statement("slow_query_log", "ON", ok))
              /\ mysql' = IF ok THEN [mysql EXCEPT !.slow_query_log = "ON"] ELSE mysql
              /\ locals' = [locals EXCEPT !.set_slow_log = IF ok THEN "ok" ELSE "err"]
              /\ report' = [report EXCEPT
                    !.can_enable_slow_log_hot_switch = IF both THEN TRUE ELSE @,
                    !.enabled_for_window = IF both THEN TRUE ELSE @,
                    !.warnings =
                        @ \o (IF locals.set_long = "err"
                              THEN <<"failed to set long_query_time">> ELSE <<>>)
                          \o (IF ~ok THEN <<"failed to enable slow_query_log">> ELSE <<>>)]
    /\ lpc' = "window"
    /\ UnchangedByRun

\* std::thread::sleep(slow_log_window_secs)
WindowSleep ==
    /\ lpc = "window"
    /\ lpc' = "read_segment"
    /\ UNCHANGED <<mysql, statements, report, locals>>
    /\ UnchangedByRun

\* match read_file_appended_segment(..): the capability, or a warning
ReadSegment ==
    /\ lpc = "read_segment"
    /\ \E ok \in BOOLEAN :
          /\ locals' = [locals EXCEPT !.segment = IF ok THEN "ok" ELSE "err"]
          /\ report' = [report EXCEPT
                !.can_read_slow_log = IF ok THEN TRUE ELSE @,
                !.warnings = IF ok THEN @
                             ELSE Append(@, "failed reading slow log file")]
    /\ lpc' = IF l1cfg.enable_slow_log_hot_switch /\ l1cfg.restore_slow_log_settings
              THEN "restore_long_query_time" ELSE "returned"
    /\ UNCHANGED <<mysql, statements>>
    /\ UnchangedByRun

\* restore_mysql_slow_log_settings: long_query_time, if its previous value is known
RestoreLongQueryTime ==
    /\ lpc = "restore_long_query_time"
    /\ IF report.previous_long_query_time = None
       THEN UNCHANGED <<mysql, statements, report>>
       ELSE \E ok \in BOOLEAN :
               LET previous == report.previous_long_query_time[1]
               IN  /\ statements' = Append(statements,
                                           Statement("long_query_time", previous, ok))
                   /\ mysql' = IF ok THEN [mysql EXCEPT !.long_query_time = previous]
                               ELSE mysql
                   /\ report' = [report EXCEPT !.warnings =
                         IF ok THEN @ ELSE Append(@, "failed to restore long_query_time")]
    /\ lpc' = "restore_slow_query_log"
    /\ UNCHANGED locals
    /\ UnchangedByRun

\* restore_mysql_slow_log_settings: slow_query_log, if its previous value is known
RestoreSlowQueryLog ==
    /\ lpc = "restore_slow_query_log"
    /\ IF report.previous_slow_query_log = None
       THEN UNCHANGED <<mysql, statements, report>>
       ELSE \E ok \in BOOLEAN :
               LET target == IF is_truthy(report.previous_slow_query_log[1])
                             THEN "ON" ELSE "OFF"
               IN  /\ statements' = Append(statements,
                                           Statement("slow_query_log", target, ok))
                   /\ mysql' = IF ok THEN [mysql EXCEPT !.slow_query_log = target]
                               ELSE mysql
                   /\ report' = [report EXCEPT !.warnings =
                         IF ok THEN @ ELSE Append(@, "failed to restore slow_query_log")]
    /\ lpc' = "returned"
    /\ UNCHANGED locals
    /\ UnchangedByRun

(***************************************************************************)
(* pipeline.rs: jittered_interval.  Durations are whole milliseconds, the  *)
(* jitter fraction is a multiple of 1 / JitterDen.                         *)
(***************************************************************************)

\* u64::MAX, scaled down: Duration::from_millis takes a u64
U64_MAX == 32767

\* base_secs 0..MaxBaseSecs are enumerated
MaxBaseSecs == 3

\* the denominator of the enumerated jitter fractions
JitterDen == 10000

\* the enumerated base intervals: the small ones, the 10 s of the unit test, and
\* one whose milliseconds do not fit the scaled u64
BaseSecsSamples == (0..MaxBaseSecs) \cup {10, 33}

\* the enumerated jitter fractions: -0.1, 0, 0.0003, 0.0006, 0.2, 0.9 and 1.5
JitterSamples == {-1000, 0, 3, 6, 2000, 9000, 15000}

\* mutant: the jitter fraction is used as it comes
clamp_none(value, lo, hi) == value

\* f64::clamp
clamp(value, lo, hi) == IF value < lo THEN lo ELSE IF value > hi THEN hi ELSE value

\* f64::round of num / den for num >= 0: to the nearest whole number, halves up
round(num, den) == (2 * num + den) \div (2 * den)

\* `as u64` on a non-negative wider integer
as_u64(value) == value % (U64_MAX + 1)

\* i128::max
max(a, b) == IF a >= b THEN a ELSE b

\* let jitter_abs = ((base_ms as f64) * jitter_pct.clamp(0.0, 0.9)).round() as i128
jitter_abs(base, jitter) == round(base * 1000 * clamp(jitter, 0, (9 * JitterDen) \div 10), JitterDen)

\* let span = (jitter_abs * 2 + 1) as u128
span(base, jitter) == jitter_abs(base, jitter) * 2 + 1

\* jittered_interval when now_unix_ms() returns now, in milliseconds
jittered_interval(base, jitter, now) ==
    LET base_ms == base * 1000
        entropy == now % span(base, jitter)
        offset == entropy - jitter_abs(base, jitter)
        jittered == max(base_ms + offset, 1000)
    IN  IF base_ms = 0 THEN 0
        ELSE IF jitter_abs(base, jitter) = 0 THEN as_u64(base_ms)
        ELSE as_u64(jittered)

(***************************************************************************)
(* main.rs: the driver thread                                              *)
(***************************************************************************)

\* what no driver step changes
UnchangedByDriver ==
    /\ UNCHANGED cfgVars
    /\ UNCHANGED <<server, server0>>
    /\ UNCHANGED negVars
    /\ UNCHANGED pureVars

\* cycle += 1; attempts = Vec::new(); payload = None; enter the attempt loop
CycleStart ==
    /\ pc = "cycle_start"
    /\ cycle < MaxCycles
    /\ cycle' = cycle + 1
    /\ attempts' = <<>>
    /\ payload' = None
    /\ attempt' = 1
    /\ pc' = IF 1 <= total_attempts THEN "spawn" ELSE "emit"
    /\ UNCHANGED <<record, emitted, timer, threads, channels>>
    /\ UnchangedByDriver

\* run_with_timeout: mpsc::channel(), thread::spawn, then block in recv_timeout
SpawnAttempt ==
    /\ pc = "spawn"
    /\ threads' = (cur :> [pc |-> "collect_level0", left |-> 0,
                           previous_slow_query_log |-> None,
                           previous_long_query_time |-> None]) @@ threads
    /\ channels' = (cur :> [queue |-> <<>>, tx |-> TRUE, rx |-> TRUE]) @@ channels
    /\ timer' = TimeoutTicks
    /\ pc' = "recv"
    /\ UNCHANGED <<cycle, attempt, attempts, payload, record, emitted>>
    /\ UnchangedByDriver

\* run_with_timeout returns: the receiver is dropped with whatever it holds
DropReceiver ==
    IF channels[cur].tx
    THEN [channels EXCEPT ![cur] = [queue |-> <<>>, tx |-> TRUE, rx |-> FALSE]]
    ELSE Without(channels, cur)

\* mutant: the ok branch forgets to keep the output
AttemptOkNoPayload(output) ==
    /\ attempts' = Append(attempts,
                     [attempt |-> attempt, status |-> "ok", error |-> None])
    /\ payload' = payload
    /\ pc' = "emit"
    /\ timer' = 0

\* match result { Ok(output) => { attempts.push(ok trace); payload = Some(output); break } }
AttemptOk(output) ==
    /\ attempts' = Append(attempts,
                     [attempt |-> attempt, status |-> "ok", error |-> None])
    /\ payload' = Some(output)
    /\ pc' = "emit"
    /\ timer' = 0

\* match result { Err(err) => { attempts.push(failed trace); backoff if attempts remain } }
AttemptErr(err) ==
    /\ attempts' = Append(attempts,
                     [attempt |-> attempt, status |-> "failed", error |-> Some(err)])
    /\ payload' = payload
    /\ IF attempt < total_attempts
       THEN pc' = "backoff" /\ timer' = BackoffTicks
       ELSE pc' = "emit" /\ timer' = 0

\* rx.recv_timeout(timeout) => Ok(result) => result
RecvResult ==
    /\ pc = "recv"
    /\ channels[cur].queue # <<>>
    /\ LET msg == Head(channels[cur].queue)
       IN  IF msg.kind = "Ok" THEN AttemptOk(msg.value) ELSE AttemptErr(msg.error)
    /\ channels' = DropReceiver
    /\ UNCHANGED <<cycle, attempt, record, emitted, threads>>
    /\ UnchangedByDriver

\* mutant: the deadline wins over a result that is already in the channel
RecvTimeoutOverResult ==
    /\ pc = "recv"
    /\ timer = 0
    /\ AttemptErr(TimeoutError)
    /\ channels' = DropReceiver
    /\ UNCHANGED <<cycle, attempt, record, emitted, threads>>
    /\ UnchangedByDriver

\* rx.recv_timeout(timeout) => Err(RecvTimeoutError::Timeout): the deadline passed
\* with the channel empty and its sender alive
RecvTimeout ==
    /\ pc = "recv"
    /\ timer = 0
    /\ channels[cur].queue = <<>>
    /\ channels[cur].tx
    /\ AttemptErr(TimeoutError)
    /\ channels' = DropReceiver
    /\ UNCHANGED <<cycle, attempt, record, emitted, threads>>
    /\ UnchangedByDriver

\* mutant: a disconnected worker ends the attempt loop at once
RecvDisconnectedFatal ==
    /\ pc = "recv"
    /\ channels[cur].queue = <<>>
    /\ ~channels[cur].tx
    /\ attempts' = Append(attempts,
                     [attempt |-> attempt, status |-> "failed",
                      error |-> Some(DisconnectedError)])
    /\ payload' = payload
    /\ pc' = "emit"
    /\ timer' = 0
    /\ channels' = DropReceiver
    /\ UNCHANGED <<cycle, attempt, record, emitted, threads>>
    /\ UnchangedByDriver

\* rx.recv_timeout(timeout) => Err(RecvTimeoutError::Disconnected)
RecvDisconnected ==
    /\ pc = "recv"
    /\ channels[cur].queue = <<>>
    /\ ~channels[cur].tx
    /\ AttemptErr(DisconnectedError)
    /\ channels' = DropReceiver
    /\ UNCHANGED <<cycle, attempt, record, emitted, threads>>
    /\ UnchangedByDriver

\* mutant: the next attempt starts without waiting for the backoff
BackoffSkipped ==
    /\ pc = "backoff"
    /\ attempt' = attempt + 1
    /\ pc' = "spawn"
    /\ UNCHANGED <<cycle, attempts, payload, record, emitted, timer, threads, channels>>
    /\ UnchangedByDriver

\* thread::sleep(retry_backoff_ms) is over: the for loop takes its next iteration
BackoffDone ==
    /\ pc = "backoff"
    /\ timer = 0
    /\ attempt' = attempt + 1
    /\ pc' = "spawn"
    /\ UNCHANGED <<cycle, attempts, payload, record, emitted, timer, threads, channels>>
    /\ UnchangedByDriver

\* nothing printed yet
NoRecord ==
    [run_id |-> None, cycle |-> 0, selected_level |-> None, attempts |-> <<>>,
     status |-> "none", error |-> None, payload |-> None]

\* mutant: the run id is made anew for every record
BuildRecordFreshRunId ==
    [run_id |-> new_run_id(cycle, 1),
     cycle |-> cycle,
     selected_level |-> IF payload # None THEN Some(payload[1].selected_level) ELSE None,
     attempts |-> attempts,
     status |-> IF payload # None THEN "ok" ELSE "failed",
     error |-> last_error(attempts),
     payload |-> payload]

\* the UnifiedCollectionRecord main builds after the attempt loop
BuildRecord ==
    [run_id |-> run_id,
     cycle |-> cycle,
     selected_level |-> IF payload # None THEN Some(payload[1].selected_level) ELSE None,
     attempts |-> attempts,
     status |-> IF payload # None THEN "ok" ELSE "failed",
     error |-> last_error(attempts),
     payload |-> payload]

\* mutant: the Once test is missing, only max_cycles ends the loop
LoopBreaksMaxOnly ==
    scheduler.max_cycles # None /\ cycle >= scheduler.max_cycles[1]

\* the loop exits after emit_record: Once mode, or max_cycles reached
LoopBreaks ==
    \/ scheduler.mode = "Once"
    \/ (scheduler.max_cycles # None /\ cycle >= scheduler.max_cycles[1])

\* emit_record(&record), the two exit tests, then jittered_interval and thread::sleep
EmitRecord ==
    /\ pc = "emit"
    /\ record' = BuildRecord
    /\ emitted' = emitted + 1
    /\ IF LoopBreaks
       THEN pc' = "done" /\ timer' = 0
       ELSE pc' = "interval" /\ timer' \in 1..MaxIntervalTicks
    /\ UNCHANGED <<cycle, attempt, attempts, payload, threads, channels>>
    /\ UnchangedByDriver

\* main returns Ok(()): the process exits and takes the threads still running with it
ProcessExit ==
    /\ pc = "done"
    /\ pc' = "exited"
    /\ UNCHANGED <<cycle, attempt, attempts, payload, record, emitted, timer,
                   threads, channels>>
    /\ UnchangedByDriver

\* thread::sleep(sleep_for) is over: back to the top of the loop
IntervalDone ==
    /\ pc = "interval"
    /\ timer = 0
    /\ pc' = "cycle_start"
    /\ UNCHANGED <<cycle, attempt, attempts, payload, record, emitted, timer,
                   threads, channels>>
    /\ UnchangedByDriver

(***************************************************************************)
(* pipeline.rs / main.rs / level1.rs: the spawned thread running the job   *)
(* (collect_once, with the Level 1 MySQL slow-log collection inside)       *)
(***************************************************************************)

ThreadIds == DOMAIN threads

UnchangedByThread ==
    /\ UNCHANGED cfgVars
    /\ UNCHANGED server0
    /\ UNCHANGED driverVars
    /\ UNCHANGED negVars
    /\ UNCHANGED pureVars

\* thread w is at label; threads run only while the process does
At(w, label) == pc # "exited" /\ threads[w].pc = label

Goto(w, label) == [threads EXCEPT ![w].pc = label]

\* the thread ends
Exited(w) == Without(threads, w)

\* the closure ends without a send: the sender is dropped
SenderDropped(w) ==
    IF channels[w].rx
    THEN [channels EXCEPT ![w].tx = FALSE]
    ELSE Without(channels, w)

\* mutant: one channel for all attempts, a send reaches whoever is receiving
SentShared(w, msg) ==
    IF cur \in DOMAIN channels /\ channels[cur].rx
    THEN [channels EXCEPT ![cur] = [queue |-> <<msg>>, tx |-> FALSE, rx |-> TRUE]]
    ELSE Without(channels, w)

\* let _ = tx.send(result): delivered only while the receiver exists; the closure
\* then ends and the sender is dropped
Sent(w, msg) ==
    IF channels[w].rx
    THEN [channels EXCEPT ![w] = [queue |-> <<msg>>, tx |-> FALSE, rx |-> TRUE]]
    ELSE Without(channels, w)

\* main.rs requested_to_collection_level
requested_to_collection_level(level) ==
    CASE level = "Level0" -> Level0
      [] level = "Level1" -> Level1

\* impl fmt::Display for CollectionLevel
LevelLabel(level) ==
    CASE level = Level0 -> "Level 0"
      [] level = Level1 -> "Level 1"
      [] level = Level2 -> "Level 2"
      [] level = Level3 -> "Level 3"

\* main.rs build_capability_probe (Mysql): level0 flags from the Level 0 report,
\* the three level1 flags from the Level 1 report or false without one
build_capability_probe(level0_ok, hot_switch_ok, logs_ok) ==
    [DefaultProbe EXCEPT
        !.has_mysql_status_access = level0_ok,
        !.has_mysql_variables_access = level0_ok,
        !.has_information_schema_access = level0_ok,
        !.has_replication_status_access = level0_ok,
        !.has_os_metrics_access = level0_ok,
        !.can_enable_slow_log_hot_switch = hot_switch_ok,
        !.can_read_slow_log = logs_ok,
        !.can_read_error_log = logs_ok]

\* collect_once: the CliOutput it returns, as far as the record uses it
CliOutput(w, level0_ok, logs_ok) ==
    LET target_level == requested_to_collection_level(collect_level)
        level1_ran == collect_level = "Level1"
        job_probe == build_capability_probe(level0_ok,
                        level1_ran /\ level1_config.enable_slow_log_hot_switch,
                        level1_ran /\ logs_ok)
        job_policy == [preferred_level |-> target_level,
                       max_accepted_level |-> target_level,
                       expert_mode_enabled |-> FALSE]
        negotiation == negotiate_collection_level(job_policy, job_probe)
    IN  [worker |-> w, selected_level |-> LevelLabel(negotiation.selected_level)]

\* a job's own results; the value names the thread that produced it
JobOk(output) == [kind |-> "Ok", value |-> output]

JobErr(w) == [kind |-> "Err", error |-> [text |-> "job error", worker |-> w]]

\* the job panics (a row.unwrap() of level0.rs): the sender is dropped without a send
WPanic(w) ==
    /\ At(w, "collect_level0")
    /\ threads' = Exited(w)
    /\ channels' = SenderDropped(w)
    /\ UNCHANGED server
    /\ UnchangedByThread

\* the job closure (a Result<T, String>) returns Err; the thread sends it and ends
WReturnErr(w) ==
    /\ At(w, "collect_level0")
    /\ threads' = Exited(w)
    /\ channels' = Sent(w, JobErr(w))
    /\ UNCHANGED server
    /\ UnchangedByThread

\* collect_once returns Ok(CliOutput); tx.send(result); the thread ends.
\* A Level 0 job talks to no shared state between its start and this step.
WSend(w) ==
    /\ \/ At(w, "send")
       \/ At(w, "collect_level0") /\ collect_level = "Level0"
    /\ \E level0_ok \in BOOLEAN, logs_ok \in BOOLEAN :
         channels' = Sent(w, JobOk(CliOutput(w, level0_ok, logs_ok)))
    /\ threads' = Exited(w)
    /\ UNCHANGED server
    /\ UnchangedByThread

\* collect_level0 went through and Level 1 is requested: collect_mysql_level1 connects
WCollectLevel1(w) ==
    /\ At(w, "collect_level0")
    /\ collect_level = "Level1"
    /\ threads' = Goto(w, "fetch_slow_query_log")
    /\ UNCHANGED <<channels, server>>
    /\ UnchangedByThread

\* previous_slow_query_log = fetch_mysql_variable(conn, "slow_query_log")
WFetchSlowQueryLog(w) ==
    /\ At(w, "fetch_slow_query_log")
    /\ threads' = [threads EXCEPT ![w].pc = "fetch_long_query_time",
                                  ![w].previous_slow_query_log = Some(server.slow_query_log)]
    /\ UNCHANGED <<channels, server>>
    /\ UnchangedByThread

\* previous_long_query_time = fetch_mysql_variable(conn, "long_query_time")
WFetchLongQueryTime(w) ==
    /\ At(w, "fetch_long_query_time")
    /\ threads' = [threads EXCEPT
                     ![w].pc = IF level1_config.enable_slow_log_hot_switch
                               THEN "set_long_query_time" ELSE "window",
                     ![w].left = IF level1_config.enable_slow_log_hot_switch
                                 THEN 0 ELSE WindowTicks,
                     ![w].previous_long_query_time = Some(server.long_query_time)]
    /\ UNCHANGED <<channels, server>>
    /\ UnchangedByThread

\* SET GLOBAL long_query_time = {:.6} of the configured threshold
WSetLongQueryTime(w) ==
    /\ At(w, "set_long_query_time")
    /\ server' = [server EXCEPT !.long_query_time = LongQueryTimeMicros]
    /\ threads' = Goto(w, "set_slow_query_log")
    /\ UNCHANGED channels
    /\ UnchangedByThread

\* SET GLOBAL slow_query_log = 'ON'; then thread::sleep(slow_log_window_secs) starts
WSetSlowQueryLog(w) ==
    /\ At(w, "set_slow_query_log")
    /\ server' = [server EXCEPT !.slow_query_log = "ON"]
    /\ threads' = [threads EXCEPT ![w].pc = "window", ![w].left = WindowTicks]
    /\ UNCHANGED channels
    /\ UnchangedByThread

\* the window sleep is over; read_file_appended_segment, parse and aggregate
WWindowDone(w) ==
    /\ At(w, "window")
    /\ threads[w].left = 0
    /\ threads' = Goto(w, IF /\ level1_config.enable_slow_log_hot_switch
                             /\ level1_config.restore_slow_log_settings
                          THEN "restore_long_query_time" ELSE "send")
    /\ UNCHANGED <<channels, server>>
    /\ UnchangedByThread

\* restore_mysql_slow_log_settings: SET GLOBAL long_query_time = {:.6} of the
\* parsed previous value (both sides in microseconds)
WRestoreLongQueryTime(w) ==
    /\ At(w, "restore_long_query_time")
    /\ server' = IF threads[w].previous_long_query_time # None
                 THEN [server EXCEPT !.long_query_time =
                                        threads[w].previous_long_query_time[1]]
                 ELSE server
    /\ threads' = Goto(w, "restore_slow_query_log")
    /\ UNCHANGED channels
    /\ UnchangedByThread

\* restore_mysql_slow_log_settings: SET GLOBAL slow_query_log = 'ON' or 'OFF'
WRestoreSlowQueryLog(w) ==
    /\ At(w, "restore_slow_query_log")
    /\ server' = IF threads[w].previous_slow_query_log # None
                 THEN [server EXCEPT !.slow_query_log =
                         IF is_truthy(threads[w].previous_slow_query_log[1])
                         THEN "ON" ELSE "OFF"]
                 ELSE server
    /\ threads' = Goto(w, "send")
    /\ UNCHANGED channels
    /\ UnchangedByThread

\* the steps of a job at any requested level
JobStep(w) ==
    \/ WPanic(w)
    \/ WReturnErr(w)
    \/ WSend(w)

\* the steps of collect_mysql_slow_log inside a Level 1 job
SlowLogStep(w) ==
    \/ WCollectLevel1(w)
    \/ WFetchSlowQueryLog(w)
    \/ WFetchLongQueryTime(w)
    \/ WSetLongQueryTime(w)
    \/ WSetSlowQueryLog(w)
    \/ WWindowDone(w)
    \/ WRestoreLongQueryTime(w)
    \/ WRestoreSlowQueryLog(w)

(***************************************************************************)
(* Time: one tick passes for every sleeper at once.  A sleep or a          *)
(* recv_timeout whose time is up returns before the next tick; the steps   *)
(* of a job in between (statements, file reads) take any time, the steps   *)
(* of the driver between two blocking calls take none.                     *)
(***************************************************************************)

DriverBlocked == pc \in {"recv", "backoff", "interval"}

Tick ==
    /\ DriverBlocked
    /\ timer > 0
    /\ \A w \in ThreadIds : threads[w].pc = "window" => threads[w].left > 0
    /\ timer' = timer - 1
    /\ threads' = [w \in ThreadIds |->
                     IF threads[w].pc = "window"
                     THEN [threads[w] EXCEPT !.left = @ - 1]
                     ELSE threads[w]]
    /\ UNCHANGED <<pc, cycle, attempt, attempts, payload, record, emitted, channels>>
    /\ UnchangedByDriver

(***************************************************************************)
(* Specifications                                                          *)
(***************************************************************************)

\* the scheduler variables while only the negotiator is exercised
SchedIdle ==
    /\ scheduler = DefaultSchedulerConfig
    /\ collect_level = "Level1"
    /\ level1_config = DefaultLevel1CollectorConfig
    /\ run_id = new_run_id(1, 1)
    /\ pc = "idle"
    /\ cycle = 0
    /\ attempt = 0
    /\ attempts = <<>>
    /\ payload = None
    /\ record = NoRecord
    /\ emitted = 0
    /\ timer = 0
    /\ threads = <<>>
    /\ channels = <<>>
    /\ server = [slow_query_log |-> "OFF", long_query_time |-> 10000000]
    /\ server0 = server

\* normalize_sql_fingerprint is not being exercised
FpIdle ==
    /\ sql = <<>>
    /\ fingerprint = <<>>
    /\ refingerprint = <<>>

\* aggregate_slow_sql_digests is not being exercised
AggIdle ==
    /\ entries = <<>>
    /\ digests = <<>>

\* no log parser is being exercised
PgIdle ==
    /\ content = <<>>
    /\ parsed = <<>>

\* extract_error_log_alerts is not being exercised
AlertIdle ==
    /\ error_lines = <<>>
    /\ alerts = <<>>

\* jittered_interval is not being exercised
JitIdle ==
    /\ base_secs = 0
    /\ jitter_pct = 0
    /\ now_ms = 0
    /\ sleep_for = None

\* read_file_appended_segment is not being exercised
SegIdle ==
    /\ log_len = 0
    /\ initial_offset = 0
    /\ max_slow_log_bytes = 1
    /\ segment = None

\* collect_mysql_slow_log is not being exercised on its own
RunIdle ==
    /\ l1cfg = [slow_log_path |-> None, enable_slow_log_hot_switch |-> TRUE,
                restore_slow_log_settings |-> TRUE]
    /\ mysql = [slow_query_log |-> "OFF", long_query_time |-> 10000000,
                slow_query_log_file |-> <<>>]
    /\ mysql0 = mysql
    /\ statements = <<>>
    /\ report = EmptyReport
    /\ locals = NoLocals
    /\ lpc = "idle"

\* no pure function is being exercised on its own
PureIdle ==
    /\ fpc = "idle"
    /\ FpIdle
    /\ AggIdle
    /\ PgIdle
    /\ AlertIdle
    /\ JitIdle
    /\ SegIdle
    /\ RunIdle

\* the negotiator is not being exercised on its own
NegIdle ==
    /\ policy = DefaultPolicy
    /\ probe = DefaultProbe
    /\ result = NoResult
    /\ npc = "idle"

\* every policy and every probe, then the call
NegInit ==
    /\ policy \in CollectionPolicy
    /\ probe \in CapabilityProbe
    /\ result = NoResult
    /\ npc = "call"
    /\ SchedIdle
    /\ PureIdle

Negotiate ==
    /\ npc = "call"
    /\ result' = negotiate_collection_level(policy, probe)
    /\ npc' = "returned"
    /\ UNCHANGED <<policy, probe>>
    /\ UNCHANGED schedVars
    /\ UNCHANGED pureVars

NegNext == Negotiate

NegSpec == NegInit /\ [][NegNext]_vars

\* the process after Cli::parse and new_run_id, before the first cycle
DriverInit ==
    /\ pc = "cycle_start"
    /\ cycle = 0
    /\ attempt = 0
    /\ attempts = <<>>
    /\ payload = None
    /\ record = NoRecord
    /\ emitted = 0
    /\ timer = 0
    /\ threads = <<>>
    /\ channels = <<>>
    /\ NegIdle
    /\ PureIdle

\* the scheduler under every configuration, collecting at Level 0
Init ==
    /\ scheduler \in SchedulerConfig
    /\ collect_level = "Level0"
    /\ level1_config = DefaultLevel1CollectorConfig
    /\ run_id = new_run_id(1, 1)
    /\ server \in [slow_query_log : {"OFF"}, long_query_time : ServerLongQueryTimes]
    /\ server0 = server
    /\ DriverInit

DriverStep ==
    \/ CycleStart
    \/ SpawnAttempt
    \/ RecvResult
    \/ RecvTimeout
    \/ RecvDisconnected
    \/ BackoffDone
    \/ EmitRecord
    \/ ProcessExit
    \/ IntervalDone

Next ==
    \/ DriverStep
    \/ Tick
    \/ \E w \in ThreadIds : JobStep(w)

Spec == Init /\ [][Next]_vars

\* the scheduler collecting at Level 1 with the slow-log hot switch: one cycle with
\* retries, or a daemon whose cycles make a single attempt each
HotInit ==
    /\ scheduler \in {s \in SchedulerConfig :
                        /\ s.max_cycles = None
                        /\ s.mode = "Once" \/ s.retry_times = 0}
    /\ collect_level = "Level1"
    /\ level1_config \in Level1CollectorConfig
    /\ run_id = new_run_id(1, 1)
    /\ server \in [slow_query_log : {"ON", "OFF"}, long_query_time : ServerLongQueryTimes]
    /\ server0 = server
    /\ DriverInit

HotNext ==
    \/ DriverStep
    \/ Tick
    \/ \E w \in ThreadIds : JobStep(w)
    \/ \E w \in ThreadIds : SlowLogStep(w)

HotSpec == HotInit /\ [][HotNext]_vars

\* the cycle loop of processes started at different times, with at most one retry
\* per cycle, collecting at Level 0
CycleInit ==
    /\ scheduler \in {s \in SchedulerConfig : s.retry_times <= 1}
    /\ collect_level = "Level0"
    /\ level1_config = DefaultLevel1CollectorConfig
    /\ run_id \in RunIds
    /\ server \in [slow_query_log : {"OFF"}, long_query_time : ServerLongQueryTimes]
    /\ server0 = server
    /\ DriverInit

\* the driver thread is scheduled and time passes: recv_timeout and thread::sleep
\* return when their time is up
CycleSpec == CycleInit /\ [][Next]_vars /\ WF_vars(DriverStep) /\ WF_vars(Tick)

\* normalize_sql_fingerprint on every SQL text up to MaxSqlLen characters and on
\* the statement of the unit test, then once more on its own result
FpInit ==
    /\ sql \in SeqsUpTo(SqlAlphabet, MaxSqlLen) \cup {ExampleSql}
    /\ fingerprint = <<>>
    /\ refingerprint = <<>>
    /\ fpc = "call"
    /\ AggIdle
    /\ PgIdle
    /\ AlertIdle
    /\ JitIdle
    /\ SegIdle
    /\ RunIdle
    /\ NegIdle
    /\ SchedIdle

Normalize ==
    /\ fpc = "call"
    /\ fingerprint' = normalize_sql_fingerprint(sql)
    /\ fpc' = "returned"
    /\ UNCHANGED <<sql, refingerprint>>
    /\ UNCHANGED <<negVars, schedVars, aggVars, pgVars, alertVars, jitVars, segVars, runVars>>

NormalizeAgain ==
    /\ fpc = "returned"
    /\ refingerprint' = normalize_sql_fingerprint(fingerprint)
    /\ fpc' = "again"
    /\ UNCHANGED <<sql, fingerprint>>
    /\ UNCHANGED <<negVars, schedVars, aggVars, pgVars, alertVars, jitVars, segVars, runVars>>

FpNext ==
    \/ Normalize
    \/ NormalizeAgain

FpSpec == FpInit /\ [][FpNext]_vars

\* aggregate_slow_sql_digests on every list of up to MaxEntries entries
AggInit ==
    /\ entries \in SeqsUpTo(SlowLogEntry, MaxEntries)
    /\ digests = <<>>
    /\ fpc = "call"
    /\ FpIdle
    /\ PgIdle
    /\ AlertIdle
    /\ JitIdle
    /\ SegIdle
    /\ RunIdle
    /\ NegIdle
    /\ SchedIdle

Aggregate ==
    /\ fpc = "call"
    /\ digests' \in aggregate_slow_sql_digests(entries)
    /\ fpc' = "returned"
    /\ UNCHANGED entries
    /\ UNCHANGED <<negVars, schedVars, fpVars, pgVars, alertVars, jitVars, segVars, runVars>>

AggNext == Aggregate

AggSpec == AggInit /\ [][AggNext]_vars

\* parse_postgres_statement_log_entries on every text of up to MaxLines lines
PgInit ==
    /\ content \in SeqsUpTo(LineSamples, MaxLines)
    /\ parsed = <<>>
    /\ fpc = "call"
    /\ FpIdle
    /\ AggIdle
    /\ AlertIdle
    /\ JitIdle
    /\ SegIdle
    /\ RunIdle
    /\ NegIdle
    /\ SchedIdle

ParsePostgres ==
    /\ fpc = "call"
    /\ parsed' = parse_postgres_statement_log_entries(content)
    /\ fpc' = "returned"
    /\ UNCHANGED content
    /\ UNCHANGED <<negVars, schedVars, fpVars, aggVars, alertVars, jitVars, segVars, runVars>>

PgNext == ParsePostgres

PgSpec == PgInit /\ [][PgNext]_vars

\* parse_mysql_slow_log_entries on every slow log of up to MaxSlowLogLines lines
SlowInit ==
    /\ content \in SeqsUpTo(SlowLogSamples, MaxSlowLogLines)
    /\ parsed = <<>>
    /\ fpc = "call"
    /\ FpIdle
    /\ AggIdle
    /\ AlertIdle
    /\ JitIdle
    /\ SegIdle
    /\ RunIdle
    /\ NegIdle
    /\ SchedIdle

ParseSlowLog ==
    /\ fpc = "call"
    /\ parsed' = parse_mysql_slow_log_entries(content)
    /\ fpc' = "returned"
    /\ UNCHANGED content
    /\ UNCHANGED <<negVars, schedVars, fpVars, aggVars, alertVars, jitVars, segVars, runVars>>

SlowNext == ParseSlowLog

SlowSpec == SlowInit /\ [][SlowNext]_vars

\* extract_error_log_alerts on every error log of up to MaxErrorLines lines
AlertInit ==
    /\ error_lines \in SeqsUpTo(ErrorLineSamples, MaxErrorLines)
    /\ alerts = <<>>
    /\ fpc = "call"
    /\ FpIdle
    /\ AggIdle
    /\ PgIdle
    /\ JitIdle
    /\ SegIdle
    /\ RunIdle
    /\ NegIdle
    /\ SchedIdle

ExtractAlerts ==
    /\ fpc = "call"
    /\ alerts' \in extract_error_log_alerts(error_lines)
    /\ fpc' = "returned"
    /\ UNCHANGED error_lines
    /\ UNCHANGED <<negVars, schedVars, fpVars, aggVars, pgVars, jitVars, segVars, runVars>>

AlertNext == ExtractAlerts

AlertSpec == AlertInit /\ [][AlertNext]_vars

\* jittered_interval on the enumerated intervals and fractions
JitInit ==
    /\ base_secs \in BaseSecsSamples
    /\ jitter_pct \in JitterSamples
    /\ now_ms = 0
    /\ sleep_for = None
    /\ fpc = "call"
    /\ FpIdle
    /\ AggIdle
    /\ PgIdle
    /\ AlertIdle
    /\ SegIdle
    /\ RunIdle
    /\ NegIdle
    /\ SchedIdle

\* one call; the clock is read once, and over time its value modulo span takes
\* every value below span
JitteredInterval ==
    /\ fpc = "call"
    /\ \E now \in 0..(span(base_secs, jitter_pct) - 1) :
          /\ now_ms' = now
          /\ sleep_for' = Some(jittered_interval(base_secs, jitter_pct, now))
    /\ fpc' = "returned"
    /\ UNCHANGED <<base_secs, jitter_pct>>
    /\ UNCHANGED <<negVars, schedVars, fpVars, aggVars, pgVars, alertVars, segVars, runVars>>

JitNext == JitteredInterval

JitSpec == JitInit /\ [][JitNext]_vars

\* read_file_appended_segment on every file of up to MaxFileLen bytes, with
\* every offset up to two bytes past that and every cap of one byte or more
SegInit ==
    /\ log_len \in 0..MaxFileLen
    /\ initial_offset \in 0..(MaxFileLen + 2)
    /\ max_slow_log_bytes \in 1..(MaxFileLen + 1)
    /\ segment = None
    /\ fpc = "call"
    /\ FpIdle
    /\ AggIdle
    /\ PgIdle
    /\ AlertIdle
    /\ JitIdle
    /\ RunIdle
    /\ NegIdle
    /\ SchedIdle

ReadAppendedSegment ==
    /\ fpc = "call"
    /\ segment' = Some(read_file_appended_segment(log_len, initial_offset,
                                                  max_slow_log_bytes))
    /\ fpc' = "returned"
    /\ UNCHANGED <<log_len, initial_offset, max_slow_log_bytes>>
    /\ UNCHANGED <<negVars, schedVars, fpVars, aggVars, pgVars, alertVars, jitVars,
                   runVars>>

SegNext == ReadAppendedSegment

SegSpec == SegInit /\ [][SegNext]_vars

\* one run of collect_mysql_slow_log, for every configuration and every state of
\* the server, with a fresh report
SlowRunInit ==
    /\ l1cfg \in SlowLogConfig
    /\ mysql \in MysqlVariables
    /\ mysql0 = mysql
    /\ statements = <<>>
    /\ report = EmptyReport
    /\ locals = NoLocals
    /\ lpc = "fetch_slow_query_log"
    /\ fpc = "idle"
    /\ FpIdle
    /\ AggIdle
    /\ PgIdle
    /\ AlertIdle
    /\ JitIdle
    /\ SegIdle
    /\ NegIdle
    /\ SchedIdle

SlowRunNext ==
    \/ FetchSlowQueryLog
    \/ FetchLongQueryTime
    \/ ResolveSlowLogPath
    \/ SetLongQueryTime
    \/ SetSlowQueryLog
    \/ WindowSleep
    \/ ReadSegment
    \/ RestoreLongQueryTime
    \/ RestoreSlowQueryLog

SlowRunSpec == SlowRunInit /\ [][SlowRunNext]_vars

(***************************************************************************)
(* Properties of the negotiator (checked under NegSpec)                    *)
(***************************************************************************)

Returned == npc = "returned"

\* the evaluations of the returned result that are ok
OkEvaluations == {k \in 1..Len(result.evaluations) : result.evaluations[k].ok}

\* C1: for every policy and probe the selected level is at most
\* min(preferred_level, max_accepted_level)
C1_SelectedClamped ==
    Returned =>
        result.selected_level
            <= LevelMin(policy.preferred_level, policy.max_accepted_level)

\* a negotiation in which max_accepted_level cut the preferred level down and the
\* cap itself was selected
C1_Witness ==
    /\ Returned
    /\ policy.max_accepted_level < policy.preferred_level
    /\ policy.max_accepted_level >= Level1
    /\ result.selected_level = policy.max_accepted_level

\* C2: whenever the evaluation of a level K in 1..3 is ok, the evaluation of every
\* level below K is ok too
C2_MonotonicSatisfaction ==
    \A K \in Level1..Level3 :
        evaluate_level(K, policy, probe).ok =>
            \A J \in Level0..(K - 1) : evaluate_level(J, policy, probe).ok

\* a negotiation that evaluated all four levels and found Level3 ok
C2_Witness ==
    /\ Returned
    /\ Len(result.evaluations) = 4
    /\ result.evaluations[1].level = Level3
    /\ result.evaluations[1].ok

\* C3: the selected level is the highest level up to the target whose evaluation
\* is ok; when no evaluated level is ok a result is still returned, it selects
\* Level0, and its Level0 evaluation is not ok and lists at least one reason
C3_SelectionRule ==
    Returned =>
        LET target == LevelMin(policy.preferred_level, policy.max_accepted_level)
            ok_levels == {L \in Level0..target : evaluate_level(L, policy, probe).ok}
        IN  IF ok_levels # {}
            THEN /\ result.selected_level \in ok_levels
                 /\ \A L \in ok_levels : L <= result.selected_level
            ELSE /\ result.selected_level = Level0
                 /\ OkEvaluations = {}
                 /\ \E k \in 1..Len(result.evaluations) :
                        /\ result.evaluations[k].level = Level0
                        /\ ~result.evaluations[k].ok
                        /\ result.evaluations[k].reasons # <<>>

\* a negotiation with a target above Level0 in which no level was satisfied and
\* Level0 was returned as the floor
C3_Witness ==
    /\ Returned
    /\ LevelMin(policy.preferred_level, policy.max_accepted_level) >= Level1
    /\ OkEvaluations = {}
    /\ result.selected_level = Level0

(***************************************************************************)
(* Properties of the scheduler (checked under Spec)                        *)
(***************************************************************************)

LastTrace(traces) == traces[Len(traces)]

\* C4: in every emitted record, error is null when the final attempt of the cycle
\* succeeded (also after failed earlier attempts), and is otherwise the error of
\* the most recent failed attempt
C4_ErrorNullAfterSuccess ==
    (emitted > 0 /\ record.attempts # <<>>) =>
        IF LastTrace(record.attempts).status = "ok"
        THEN record.error = None
        ELSE record.error = LastTrace(record.attempts).error

\* C5: at every moment at most one collection operation is in flight
C5_OneOperationInFlight == Cardinality(DOMAIN threads) <= 1

\* C7: when run_with_timeout returns, it returns the result its own job published
\* if there is one (the Ok value or the Err value), and the timeout error if the
\* deadline passed while the job had not published
C7_TimeoutContract ==
    [][(pc = "recv" /\ pc' # "recv") =>
        LET trace == LastTrace(attempts')
            chan == channels[cur]
        IN  /\ Len(attempts') = Len(attempts) + 1
            /\ chan.queue # <<>> =>
                 LET msg == Head(chan.queue)
                 IN  IF msg.kind = "Ok"
                     THEN /\ trace.status = "ok"
                          /\ trace.error = None
                          /\ payload' = Some(msg.value)
                          /\ msg.value.worker = cur
                     ELSE /\ trace.status = "failed"
                          /\ trace.error = Some(msg.error)
                          /\ msg.error.worker = cur
                          /\ payload' = None
            /\ (chan.queue = <<>> /\ chan.tx) =>
                 /\ timer = 0
                 /\ trace.status = "failed"
                 /\ trace.error = Some(TimeoutError)
                 /\ payload' = None
    ]_vars

\* a cycle whose first attempt timed out and whose second attempt delivered the
\* job's own Ok value
C7_Witness ==
    /\ pc = "emit"
    /\ Len(attempts) = 2
    /\ attempts[1].error = Some(TimeoutError)
    /\ attempts[2].status = "ok"
    /\ payload # None
    /\ payload[1].worker = <<cycle, 2>>

\* the attempts a cycle makes when all of them fail, written without total_attempts
AttemptBudget ==
    IF scheduler.retry_times + 1 > U32_MAX THEN U32_MAX ELSE scheduler.retry_times + 1

\* the part of C8 that does not depend on the number of attempts: every attempt
\* made has exactly one trace, traces are numbered 1..n, only the last one can be
\* ok, and nothing is attempted after a success
TracesWellFormed ==
    /\ pc \in {"spawn", "recv"} => Len(attempts) = attempt - 1 /\ payload = None
    /\ pc = "backoff" => Len(attempts) = attempt /\ payload = None
    /\ pc = "emit" /\ attempts # <<>> => Len(attempts) = attempt
    /\ \A k \in 1..Len(attempts) :
          /\ attempts[k].attempt = k
          /\ attempts[k].status = "ok" => k = Len(attempts)
    /\ payload # None => LastTrace(attempts).status = "ok"

AllFailed(traces) == \A k \in 1..Len(traces) : traces[k].status = "failed"

\* C8 as stated: at most retry_times + 1 attempts per cycle, exactly retry_times + 1
\* when every attempt fails, none after the first success; one trace per attempt,
\* numbered 1..n, only the last one possibly ok
C8_AttemptsAsStated ==
    /\ TracesWellFormed
    /\ Len(attempts) <= scheduler.retry_times + 1
    /\ (pc = "emit" /\ AllFailed(attempts)) =>
            Len(attempts) = scheduler.retry_times + 1

\* C8 amended: at most min(retry_times + 1, u32::MAX) attempts per cycle, exactly
\* that many when every attempt fails, none after the first success; one trace per
\* attempt, numbered 1..n, only the last one possibly ok
C8_AttemptsSaturating ==
    /\ TracesWellFormed
    /\ Len(attempts) <= AttemptBudget
    /\ (pc = "emit" /\ AllFailed(attempts)) => Len(attempts) = AttemptBudget

\* a cycle with retry_times = u32::MAX that used up its whole budget, every
\* attempt failed
C8_Witness ==
    /\ pc = "emit"
    /\ scheduler.retry_times = U32_MAX
    /\ Len(attempts) = U32_MAX
    /\ AllFailed(attempts)

\* C9: in every emitted record status is ok iff some attempt of the cycle
\* succeeded; the payload is that attempt's result when status is ok and null
\* otherwise; selected_level is null exactly when status is failed
C9_RecordStatus ==
    emitted > 0 =>
        LET ok_attempts == {k \in 1..Len(record.attempts) :
                               record.attempts[k].status = "ok"}
        IN  /\ record.status \in {"ok", "failed"}
            /\ record.status = "ok" <=> ok_attempts # {}
            /\ record.status = "ok" =>
                 /\ record.payload # None
                 /\ \E k \in ok_attempts :
                        record.payload[1].worker = <<record.cycle, k>>
            /\ record.status = "failed" => record.payload = None
            /\ record.selected_level = None <=> record.status = "failed"

\* a record with status ok for a cycle whose first attempt failed
C9_Witness ==
    /\ emitted > 0
    /\ record.status = "ok"
    /\ Len(record.attempts) = 2
    /\ record.payload # None

\* C10: attempt n+1 starts only once the receive of attempt n has returned and the
\* backoff ran out; the next cycle starts only once the previous cycle's record
\* went out and the interval ran out; the backoff sleep is entered only after a
\* failed attempt that is not the last one of its cycle, lasts its full length, and
\* is always followed by another attempt
C10_Sequencing ==
    [][/\ (cycle' = cycle /\ attempt' # attempt) =>
            /\ attempt' = attempt + 1
            /\ pc = "backoff" /\ timer = 0
            /\ Len(attempts) = attempt
            /\ (cur \in DOMAIN channels => ~channels[cur].rx)
       /\ (cycle' # cycle /\ cycle >= 1) =>
            /\ cycle' = cycle + 1
            /\ pc = "cycle_start"
            /\ emitted = cycle /\ record.cycle = cycle
       /\ (pc # "cycle_start" /\ pc' = "cycle_start") => pc = "interval" /\ timer = 0
       /\ (pc' = "spawn") => (\A k \in 1..Len(attempts') : attempts'[k].status = "failed")
       /\ (pc # "backoff" /\ pc' = "backoff") =>
            /\ LastTrace(attempts').status = "failed"
            /\ LastTrace(attempts').attempt = attempt
            /\ attempt < AttemptBudget
            /\ timer' = BackoffTicks
       /\ (pc = "backoff" /\ pc' = "backoff") => timer' \in {timer, timer - 1}
       /\ (pc = "backoff" /\ pc' # "backoff") => pc' = "spawn" /\ attempt' = attempt + 1
       /\ (pc # "interval" /\ pc' = "interval") => timer' >= 1 /\ emitted' = cycle
       /\ (pc = "interval" /\ pc' = "interval") => timer' \in {timer, timer - 1}
    ]_vars

\* the second attempt of the second cycle is about to start
C10_Witness ==
    /\ pc = "spawn"
    /\ cycle = 2
    /\ attempt = 2

(***************************************************************************)
(* Properties of the slow-log hot switch (checked under HotSpec)           *)
(***************************************************************************)

\* C6: with hot switch and restore enabled, once every started collection unit has
\* run to completion the server's slow_query_log and long_query_time are back at
\* the values they had before the first unit started
C6_SettingsRestored ==
    (/\ level1_config.enable_slow_log_hot_switch
     /\ level1_config.restore_slow_log_settings
     /\ DOMAIN threads = {}) => server = server0

(***************************************************************************)
(* Properties of the cycle loop (checked under CycleSpec)                  *)
(***************************************************************************)

\* the loop has run its last cycle and main has returned or is about to
Terminated == pc \in {"done", "exited"}

\* C11: every cycle, ok or failed, emits exactly one record; all records carry the
\* run id of the process and the cycle numbers 1, 2, 3, ... without gaps; in
\* Daemon mode a failed cycle is followed by the interval sleep like an ok one
C11_OneRecordPerCycle ==
    [][/\ (emitted' # emitted) =>
            /\ pc = "emit"
            /\ emitted' = emitted + 1
            /\ record'.cycle = emitted'
            /\ record'.cycle = cycle
            /\ record'.run_id = run_id
            /\ emitted > 0 => record'.run_id = record.run_id
            /\ record'.status \in {"ok", "failed"}
       /\ (pc = "emit" /\ pc' # "emit") => emitted' = emitted + 1
       /\ (cycle' # cycle) => cycle' = cycle + 1 /\ emitted = cycle
       /\ (/\ pc = "emit" /\ pc' # "emit"
           /\ scheduler.mode = "Daemon"
           /\ (scheduler.max_cycles = None \/ cycle < scheduler.max_cycles[1])) =>
            pc' = "interval"
    ]_vars

\* a daemon sleeping towards its next cycle after a second cycle that failed
C11_Witness ==
    /\ pc = "interval"
    /\ emitted = 2
    /\ record.cycle = 2
    /\ record.status = "failed"

\* C12: in Once mode exactly one cycle is executed and then the scheduler
\* terminates, whatever the outcome of the cycle and whatever max_cycles is
C12_OnceRunsOneCycle ==
    (scheduler.mode = "Once") =>
        /\ [](/\ cycle <= 1
              /\ emitted <= 1
              /\ pc # "interval"
              /\ emitted = 1 => Terminated
              /\ Terminated => cycle = 1 /\ emitted = 1)
        /\ <>(pc = "exited")

\* a Once process that has exited after a failed cycle although max_cycles asked
\* for more
C12_Witness ==
    /\ pc = "exited"
    /\ scheduler.mode = "Once"
    /\ scheduler.max_cycles = Some(MaxCycles)
    /\ cycle = 1
    /\ record.status = "failed"

\* C13: in Daemon mode with max_cycles = m the loop terminates once the cycle
\* counter reaches m, never executes more than m cycles, and does not sleep the
\* interval after the last cycle
C13_MaxCyclesBound ==
    (scheduler.mode = "Daemon" /\ scheduler.max_cycles # None) =>
        LET m == scheduler.max_cycles[1]
        IN  /\ cycle <= m
            /\ (emitted > 0 /\ emitted >= m) => Terminated
            /\ Terminated => emitted = m

(***************************************************************************)
(* Properties of normalize_sql_fingerprint (checked under FpSpec)          *)
(***************************************************************************)

\* C14: normalize_sql_fingerprint is idempotent, normalize(normalize(s)) =
\* normalize(s), on every enumerated text, unterminated literals included
C14_FingerprintIdempotent ==
    fpc = "again" => refingerprint = fingerprint

\* a text with an upper-case letter, a number and an unterminated literal whose
\* fingerprint was normalized again
C14_Witness ==
    /\ fpc = "again"
    /\ sql = <<"A", " ", "1", ".", "'">>
    /\ fingerprint = <<"a", " ", "?">>

\* the number rule as the specification words it: the index after a run of digits
\* that starts at i, with one '.' and more digits taken along only when at least
\* one digit follows the dot
RECURSIVE DigitsEnd(_, _)
DigitsEnd(text, i) ==
    IF i <= Len(text) /\ is_ascii_digit(text[i]) THEN DigitsEnd(text, i + 1) ELSE i

ReferenceNumberEnd(text, i) ==
    LET d == DigitsEnd(text, i)
    IN  IF d + 1 <= Len(text) /\ text[d] = "." /\ is_ascii_digit(text[d + 1])
        THEN DigitsEnd(text, d + 1)
        ELSE d

\* one character of the reference scan inside or outside a literal opened by
\* quote: what is written, where reading goes on, and the open quote afterwards
ReferenceStep(text, i, quote) ==
    LET ch == text[i] IN
    IF quote # ""
    THEN [out |-> IF ch = quote THEN <<"?">> ELSE <<>>, i |-> i + 1,
          quote |-> IF ch = quote THEN "" ELSE quote]
    ELSE IF ch \in {"'", "\""} THEN [out |-> <<>>, i |-> i + 1, quote |-> ch]
    ELSE IF is_ascii_digit(ch)
    THEN [out |-> <<"?">>, i |-> ReferenceNumberEnd(text, i), quote |-> ""]
    ELSE IF is_whitespace(ch) THEN [out |-> <<" ">>, i |-> i + 1, quote |-> ""]
    ELSE [out |-> <<to_ascii_lowercase(ch)>>, i |-> i + 1, quote |-> ""]

\* the reference scan of characters lo..hi; run holds what was written, where
\* reading goes on and the open quote
RECURSIVE ReferenceTurns(_, _, _, _)
ReferenceTurns(text, lo, hi, run) ==
    IF lo > hi THEN run
    ELSE IF lo = hi
    THEN IF lo < run.i THEN run
         ELSE LET turn == ReferenceStep(text, lo, run.quote)
              IN  [out |-> run.out \o turn.out, i |-> turn.i, quote |-> turn.quote]
    ELSE LET mid == (lo + hi) \div 2
             first == ReferenceTurns(text, lo, mid, run)
         IN  IF first.i > lo THEN ReferenceTurns(text, mid + 1, hi, first) ELSE first

\* the reference scan: literals become one '?', numbers one '?', whitespace is
\* kept as a space, every other character is lower-cased
ReferenceScan(text) ==
    ReferenceTurns(text, 1, Len(text), [out |-> <<>>, i |-> 1, quote |-> ""]).out

\* whitespace runs become one space and the ends are trimmed
ReferenceFingerprint(text) ==
    join_space(split_whitespace(ReferenceScan(text)))

\* C15: normalize_sql_fingerprint agrees with the reference normalizer on every
\* enumerated text and on the statement of the unit test
C15_AgreesWithReference ==
    fpc \in {"returned", "again"} => fingerprint = ReferenceFingerprint(sql)

(***************************************************************************)
(* Properties of aggregate_slow_sql_digests (checked under AggSpec)        *)
(***************************************************************************)

\* the fingerprint of each statement tried
FingerprintOf == [statement \in SqlSamples |-> normalize_sql_fingerprint(statement)]

\* the fingerprints of the input entries
EntryFingerprints == {FingerprintOf[entries[k].sql] : k \in 1..Len(entries)}

\* the input entries with fingerprint fp
EntriesOf(fp) == {k \in 1..Len(entries) : FingerprintOf[entries[k].sql] = fp}

RECURSIVE SumCounts(_, _)
SumCounts(list, n) == IF n = 0 THEN 0 ELSE SumCounts(list, n - 1) + list[n].count

\* C16: there is exactly one digest per distinct fingerprint of the input entries,
\* its count is the number of entries with that fingerprint, and the counts add up
\* to the number of entries
C16_OneDigestPerFingerprint ==
    fpc = "returned" =>
        /\ {digests[k].fingerprint : k \in 1..Len(digests)} = EntryFingerprints
        /\ Len(digests) = Cardinality(EntryFingerprints)
        /\ \A k \in 1..Len(digests) :
              digests[k].count = Cardinality(EntriesOf(digests[k].fingerprint))
        /\ SumCounts(digests, Len(digests)) = Len(entries)

\* three entries, two of them with the same fingerprint but different statements
\* and timings, aggregated into two digests
C16_Witness ==
    /\ fpc = "returned"
    /\ Len(entries) = 3
    /\ Len(digests) = 2
    /\ \E k \in 1..2 :
          /\ digests[k].count = 2
          /\ digests[k].total_query_time_secs = 200000000
          /\ \E i, j \in EntriesOf(digests[k].fingerprint) :
                entries[i].sql # entries[j].sql

(***************************************************************************)
(* Properties of parse_postgres_statement_log_entries (checked under       *)
(* PgSpec)                                                                 *)
(***************************************************************************)

\* what the extractors find in each of the enumerated lines
LineFacts ==
    [line \in LineSamples |->
        [trimmed |-> trim(line),
         duration |-> extract_postgres_duration_secs(trim(line)),
         payload |-> extract_postgres_statement_sql(trim(line))]]

\* line i of the input without its surrounding whitespace
TrimmedLine(i) == LineFacts[content[i]].trimmed

DurationOf(i) == LineFacts[content[i]].duration

PayloadOf(i) == LineFacts[content[i]].payload

\* line i carries a duration
DurationLine(i) == DurationOf(i) # None

\* line i carries a duration and a statement
InlineLine(i) == DurationLine(i) /\ PayloadOf(i) # None

\* line i carries a duration and no statement
BareDurationLine(i) == DurationLine(i) /\ PayloadOf(i) = None

\* the next non-empty line after line i, 0 when there is none
NextNonEmpty(i) ==
    LET later == {j \in (i + 1)..Len(content) : TrimmedLine(j) # <<>>}
    IN  IF later = {} THEN 0 ELSE CHOOSE j \in later : \A x \in later : j <= x

\* the next non-empty line after line i carries a statement payload
FollowedByPayload(i) == NextNonEmpty(i) # 0 /\ PayloadOf(NextNonEmpty(i)) # None

\* the next non-empty line after line i carries a statement payload and no
\* duration of its own
FollowedByContinuation(i) == FollowedByPayload(i) /\ ~DurationLine(NextNonEmpty(i))

\* there is an entry with this statement and this duration
HasEntry(statement, duration_secs) ==
    \E k \in 1..Len(parsed) :
        parsed[k].sql = statement /\ parsed[k].query_time_secs = duration_secs

\* every entry has lock time, rows sent and rows examined 0
ZeroMetrics ==
    \A k \in 1..Len(parsed) :
        /\ parsed[k].lock_time_secs = 0
        /\ parsed[k].rows_sent = 0
        /\ parsed[k].rows_examined = 0

\* the lines at which an entry is due: the duration lines with an inline
\* statement, and the continuation lines right behind a bare duration line
EmittingLines ==
    {j \in 1..Len(content) :
        \/ InlineLine(j)
        \/ \E i \in 1..(j - 1) :
              BareDurationLine(i) /\ FollowedByContinuation(i) /\ NextNonEmpty(i) = j}

\* the k-th emitting line
EmittingLine(k) ==
    CHOOSE j \in EmittingLines : Cardinality({x \in EmittingLines : x <= j}) = k

\* the duration line the entry due at line j takes its duration from
DurationSource(j) ==
    IF InlineLine(j) THEN j
    ELSE CHOOSE i \in 1..(j - 1) : BareDurationLine(i) /\ NextNonEmpty(i) = j

\* C17, as stated: a duration line with an inline statement gives an entry; a
\* duration line without one gives an entry with its duration whenever the next
\* non-empty line carries a statement payload; no more entries than duration
\* lines; lock time and row counts are 0
C17_AsStated ==
    fpc = "returned" =>
        /\ \A i \in 1..Len(content) :
              InlineLine(i) => HasEntry(PayloadOf(i)[1], DurationOf(i)[1])
        /\ \A i \in 1..Len(content) :
              (BareDurationLine(i) /\ FollowedByPayload(i))
                  => HasEntry(PayloadOf(NextNonEmpty(i))[1], DurationOf(i)[1])
        /\ Len(parsed) <= Cardinality({i \in 1..Len(content) : DurationLine(i)})
        /\ ZeroMetrics

\* C17, amended: the entries are, in order, one per duration line with an inline
\* statement (its own duration) and one per bare duration line whose next
\* non-empty line carries a statement payload and no duration of its own (the
\* stored duration, the payload of that line); no more entries than duration
\* lines; lock time and row counts are 0
C17_EntriesPerDurationLine ==
    fpc = "returned" =>
        /\ Len(parsed) = Cardinality(EmittingLines)
        /\ \A k \in 1..Len(parsed) :
              LET j == EmittingLine(k)
              IN  /\ parsed[k].sql = PayloadOf(j)[1]
                  /\ parsed[k].query_time_secs = DurationOf(DurationSource(j))[1]
        /\ Len(parsed) <= Cardinality({i \in 1..Len(content) : DurationLine(i)})
        /\ ZeroMetrics

\* an inline entry, then a bare duration line completed by the statement line
\* behind it with the stored 4 ms
C17_Witness ==
    /\ fpc = "returned"
    /\ content = <<LineInline, LineDuration, LineStatement>>
    /\ Len(parsed) = 2
    /\ parsed[1].query_time_secs = 3500000
    /\ parsed[2].query_time_secs = 4000000
    /\ parsed[2].sql = <<"S", "E", "L", "E", "C", "T", " ", "2">>

(***************************************************************************)
(* Properties of extract_error_log_alerts (checked under AlertSpec)        *)
(***************************************************************************)

\* the categories and their keywords
CategoryKeywords ==
    [deadlock |-> DeadlockKeywords, crash_recovery |-> CrashRecoveryKeywords,
     purge |-> PurgeKeywords, replication |-> ReplicationKeywords]

\* which categories have a keyword in each of the enumerated lines, whatever
\* the case of its letters
LineCategories ==
    [line \in ErrorLineSamples |->
        {category \in DOMAIN CategoryKeywords :
            ContainsAny(str_to_ascii_lowercase(line), CategoryKeywords[category])}]

\* the input lines with a keyword of this category
LinesOf(category) ==
    {k \in 1..Len(error_lines) : category \in LineCategories[error_lines[k]]}

\* the alerts of this category
AlertsOf(category) == {k \in 1..Len(alerts) : alerts[k].category = category}

\* the count reported for this category, 0 when it has no alert
CountOf(category) ==
    IF AlertsOf(category) = {} THEN 0
    ELSE alerts[CHOOSE k \in AlertsOf(category) : TRUE].count

\* C18: the category tests are independent and not exclusive: every category's
\* count is the number of input lines with at least one of its keywords, each
\* category has at most one alert and there is no alert of another category
C18_IndependentCategories ==
    fpc = "returned" =>
        /\ \A category \in DOMAIN CategoryKeywords :
              /\ Cardinality(AlertsOf(category)) <= 1
              /\ CountOf(category) = Cardinality(LinesOf(category))
        /\ \A k \in 1..Len(alerts) : alerts[k].category \in DOMAIN CategoryKeywords

\* one line with a deadlock and a replication keyword, among lines of one
\* category each: it is counted under both
C18_Witness ==
    /\ fpc = "returned"
    /\ error_lines = <<ErrDeadlock, ErrDeadlockReplica, ErrWal>>
    /\ CountOf("deadlock") = 2
    /\ CountOf("replication") = 2
    /\ Len(alerts) = 2

(***************************************************************************)
(* Properties of jittered_interval (checked under JitSpec)                 *)
(***************************************************************************)

\* the jitter fraction within [0, 0.9], in units of 1 / JitterDen
ClampedJitter ==
    IF jitter_pct < 0 THEN 0
    ELSE IF 10 * jitter_pct > 9 * JitterDen THEN (9 * JitterDen) \div 10
    ELSE jitter_pct

\* base * clamp(f, 0, 0.9) in milliseconds, to the nearest millisecond
RoundedJitterMs == (2 * base_secs * 1000 * ClampedJitter + JitterDen) \div (2 * JitterDen)

\* C19, as stated: for base > 0 the result lies within [max(1 s, base - j),
\* base + j] with j = base * clamp(f, 0, 0.9), and for base = 0 it is 0 (both
\* sides of each comparison are multiplied by JitterDen)
C19_AsStated ==
    fpc = "returned" =>
        IF base_secs = 0 THEN sleep_for = Some(0)
        ELSE LET base == base_secs * 1000 * JitterDen
                 j == base_secs * 1000 * ClampedJitter
                 got == sleep_for[1] * JitterDen
             IN  /\ got >= 1000 * JitterDen
                 /\ got >= base - j
                 /\ got <= base + j

\* C19, amended: with j rounded to the nearest millisecond, and for a base whose
\* milliseconds plus j fit a u64, the result lies within [max(1 s, base - j),
\* base + j]; for base = 0 it is 0
C19_JitterBoundRounded ==
    fpc = "returned" =>
        IF base_secs = 0 THEN sleep_for = Some(0)
        ELSE (base_secs * 1000 + RoundedJitterMs <= U64_MAX) =>
                 /\ sleep_for[1] >= 1000
                 /\ sleep_for[1] >= base_secs * 1000 - RoundedJitterMs
                 /\ sleep_for[1] <= base_secs * 1000 + RoundedJitterMs

\* the unit test's call at the upper end of its range
C19_Witness ==
    /\ fpc = "returned"
    /\ base_secs = 10
    /\ jitter_pct = 2000
    /\ sleep_for = Some(12000)

(***************************************************************************)
(* Properties of tasks_for_level (checked under NegSpec)                   *)
(***************************************************************************)

\* the names of the tasks of a manifest
TaskNames(tasks) == {tasks[k].name : k \in 1..Len(tasks)}

\* C20: for the probe at hand and every K in 1..3 the task names of level K
\* include the task names of level K - 1
C20_TaskSuperset ==
    npc = "returned" =>
        \A K \in 1..3 :
            TaskNames(tasks_for_level(K - 1, probe)) \subseteq TaskNames(tasks_for_level(K, probe))

\* a negotiation that selected Level3 with sys schema access: its manifest holds
\* the thirteen names of the levels below and three of its own
C20_Witness ==
    /\ npc = "returned"
    /\ probe.has_sys_schema_access
    /\ result.selected_level = Level3
    /\ result.tasks = tasks_for_level(Level3, probe)
    /\ Cardinality(TaskNames(result.tasks)) = 16
    /\ Cardinality(TaskNames(tasks_for_level(Level2, probe))) = 13
    /\ "sys_schema_helpers" \in TaskNames(result.tasks)

(***************************************************************************)
(* Further properties of the negotiator (checked under NegSpec)            *)
(***************************************************************************)

\* every Level0 and Level1 capability of the probe is there
CapableUpToLevel1 ==
    /\ probe.has_mysql_status_access
    /\ probe.has_mysql_variables_access
    /\ probe.has_information_schema_access
    /\ probe.has_replication_status_access
    /\ probe.has_os_metrics_access
    /\ probe.can_enable_slow_log_hot_switch
    /\ probe.can_read_slow_log
    /\ probe.can_read_error_log

\* the evaluations of this level in the result
EvaluationsOf(level) ==
    {k \in 1..Len(result.evaluations) : result.evaluations[k].level = level}

\* the result has one evaluation of this level, it is not ok and names this reason
FailedWith(level, reason) ==
    /\ Cardinality(EvaluationsOf(level)) = 1
    /\ \A k \in EvaluationsOf(level) :
          /\ ~result.evaluations[k].ok
          /\ \E r \in 1..Len(result.evaluations[k].reasons) :
                result.evaluations[k].reasons[r] = reason

\* C21: with preferred = max_accepted = Level3 and expert mode on, a probe with
\* every Level0 and Level1 capability and performance_schema disabled is given
\* Level1, and the Level2 and the Level3 evaluation both fail with the Level2
\* reason
C21_DowngradeToLevel1 ==
    (/\ npc = "returned"
     /\ policy = [preferred_level |-> Level3, max_accepted_level |-> Level3,
                  expert_mode_enabled |-> TRUE]
     /\ CapableUpToLevel1
     /\ ~probe.performance_schema_enabled)
        => /\ result.selected_level = Level1
           /\ FailedWith(Level2, "performance_schema is disabled")
           /\ FailedWith(Level3, "performance_schema is disabled")

\* the scenario with every Level3 capability in place: only the inherited reason
\* keeps Level3 from being selected
C21_Witness ==
    /\ npc = "returned"
    /\ policy = [preferred_level |-> Level3, max_accepted_level |-> Level3,
                 expert_mode_enabled |-> TRUE]
    /\ CapableUpToLevel1
    /\ ~probe.performance_schema_enabled
    /\ probe.has_performance_schema_access
    /\ probe.can_sample_innodb_status_high_frequency
    /\ probe.can_capture_tcpdump_short_window
    /\ result.selected_level = Level1
    /\ Len(result.evaluations) = 4
    /\ result.evaluations[1].reasons = <<"performance_schema is disabled">>

\* the policy with expert mode off
WithoutExpertMode(pol) == [pol EXCEPT !.expert_mode_enabled = FALSE]

\* the probe with every Level3-only flag off
WithoutLevel3Flags(p) ==
    [p EXCEPT !.can_sample_innodb_status_high_frequency = FALSE,
              !.can_capture_tcpdump_short_window = FALSE,
              !.can_capture_perf_short_window = FALSE,
              !.can_capture_strace_short_window = FALSE]

\* every capability of the levels 0 to 2 is there
CapableUpToLevel2 ==
    /\ CapableUpToLevel1
    /\ probe.performance_schema_enabled
    /\ probe.has_performance_schema_access

\* C22: when the smaller of preferred and max_accepted is at most Level2, Level3
\* is not evaluated and the result is the one of the same inputs with expert
\* mode and the Level3-only flags off, so any two runs that differ only in those
\* inputs return equal results; the default policy with a probe capable up to
\* Level2 is given Level2
C22_IndependentOfLevel3Inputs ==
    (/\ npc = "returned"
     /\ (policy.preferred_level <= Level2 \/ policy.max_accepted_level <= Level2))
        => /\ EvaluationsOf(Level3) = {}
           /\ result = negotiate_collection_level(WithoutExpertMode(policy),
                                                  WithoutLevel3Flags(probe))
           /\ (/\ policy.preferred_level = DefaultPolicy.preferred_level
               /\ policy.max_accepted_level = DefaultPolicy.max_accepted_level
               /\ CapableUpToLevel2)
                  => result.selected_level = Level2

\* the default policy apart from expert mode being on, and the probe of the unit
\* test: Level2 although Level3 would be satisfied
C22_Witness ==
    /\ npc = "returned"
    /\ policy = [DefaultPolicy EXCEPT !.expert_mode_enabled = TRUE]
    /\ CapableUpToLevel2
    /\ probe.can_sample_innodb_status_high_frequency
    /\ probe.can_capture_tcpdump_short_window
    /\ evaluate_level(Level3, policy, probe).ok
    /\ result.selected_level = Level2
    /\ Len(result.evaluations) = 3

\* a level's own unmet checks
OwnReasons(level) ==
    CASE level = Level0 -> Level0Reasons(probe)
      [] level = Level1 -> Level1Reasons(probe)
      [] level = Level2 -> Level2Reasons(probe)
      [] level = Level3 -> Level3Reasons(policy, probe)

\* C30: for every K in 1..3 the reasons of level K are the reasons of level K - 1,
\* in the same order, followed by the own unmet checks of level K; the same holds
\* between neighbouring evaluations of the result
C30_ReasonsCascade ==
    npc = "returned" =>
        /\ \A K \in 1..3 :
              evaluate_level(K, policy, probe).reasons
                  = evaluate_level(K - 1, policy, probe).reasons \o OwnReasons(K)
        /\ \A k \in 1..(Len(result.evaluations) - 1) :
              LET upper == result.evaluations[k]
                  lower == result.evaluations[k + 1]
              IN  /\ upper.level = lower.level + 1
                  /\ upper.reasons = lower.reasons \o OwnReasons(upper.level)

\* a result whose Level3 evaluation carries one reason of each level, lowest first
C30_Witness ==
    /\ npc = "returned"
    /\ Len(result.evaluations) = 4
    /\ result.evaluations[1].level = Level3
    /\ result.evaluations[1].reasons =
          <<"missing SHOW VARIABLES access", "cannot collect error log",
            "performance_schema is disabled", "expert mode is disabled by policy">>

(***************************************************************************)
(* Abandoned jobs and failed attempts (checked under CycleSpec)            *)
(***************************************************************************)

\* the jobs whose run_with_timeout call has returned while they were running
AbandonedThreads == {w \in DOMAIN threads : ~(pc = "recv" /\ w = cur)}

\* this step is run_with_timeout returning the timeout error
TimeoutReturns ==
    /\ pc = "recv"
    /\ pc' # "recv"
    /\ LastTrace(attempts').error = Some(TimeoutError)

\* what a step may do about abandoned jobs: a timeout leaves its job running as
\* it is, with the receiving end of its channel gone; an abandoned job that ends
\* changes nothing the driver sees and no other channel, and its own channel is
\* gone with it; a result the driver takes was sent by the job of this attempt
AbandonedJobsStep ==
    /\ TimeoutReturns =>
          /\ cur \in DOMAIN threads
          /\ threads' = threads
          /\ cur \in DOMAIN channels'
          /\ ~channels'[cur].rx
    /\ \A w \in AbandonedThreads :
          w \notin DOMAIN threads' =>
              /\ UNCHANGED <<pc, cycle, attempt, attempts, payload, record, emitted>>
              /\ w \notin DOMAIN channels'
              /\ channels' = Without(channels, w)
    /\ (pc = "recv" /\ pc' # "recv" /\ channels[cur].queue # <<>>) =>
          LET msg == Head(channels[cur].queue)
          IN  IF msg.kind = "Ok" THEN msg.value.worker = cur ELSE msg.error.worker = cur

TimeoutOrDisconnected == {TimeoutError, DisconnectedError}

\* every trace is a failure by timeout or by disconnection
AllTimedOutOrDisconnected(traces) ==
    \A k \in 1..Len(traces) :
        traces[k].status = "failed" /\ traces[k].error \in {Some(e) : e \in TimeoutOrDisconnected}

\* C24: a timeout and a disconnection each add one failed trace with their own
\* error, the two errors differ, the attempt is followed by the backoff when
\* attempts remain and by the record when none does, exactly as after an error
\* the job returned; a cycle whose attempts all ended this way used its whole
\* budget and its record has status failed
C24_TimeoutAndDisconnectRetried ==
    [][/\ TimeoutError.text # DisconnectedError.text
       /\ (pc = "recv" /\ pc' # "recv") =>
             LET trace == LastTrace(attempts')
                 chan == channels[cur]
                 job_failed == chan.queue # <<>> /\ Head(chan.queue).kind = "Err"
                 timed_out == chan.queue = <<>> /\ chan.tx
                 disconnected == chan.queue = <<>> /\ ~chan.tx
             IN  /\ timed_out => trace.error = Some(TimeoutError)
                 /\ disconnected => trace.error = Some(DisconnectedError)
                 /\ (timed_out \/ disconnected \/ job_failed) =>
                       /\ Len(attempts') = Len(attempts) + 1
                       /\ trace.attempt = attempt
                       /\ trace.status = "failed"
                       /\ trace.error # None
                       /\ payload' = None
                       /\ pc' = IF attempt < AttemptBudget THEN "backoff" ELSE "emit"
       /\ (emitted' = emitted + 1 /\ AllTimedOutOrDisconnected(record'.attempts)) =>
             /\ Len(record'.attempts) = AttemptBudget
             /\ record'.status = "failed"
             /\ record'.payload = None
             /\ record'.error = LastTrace(record'.attempts).error
    ]_vars

\* a cycle whose first attempt timed out and whose retry lost its worker: the
\* record is failed and names both errors
C24_Witness ==
    /\ emitted = 1
    /\ Len(record.attempts) = 2
    /\ record.attempts[1].error = Some(TimeoutError)
    /\ record.attempts[2].error = Some(DisconnectedError)
    /\ record.status = "failed"
    /\ record.error = Some(DisconnectedError)

(***************************************************************************)
(* Further properties of parse_postgres_statement_log_entries (checked     *)
(* under PgSpec)                                                           *)
(***************************************************************************)

\* the first line after line i that carries a duration or a statement payload,
\* 0 when there is none
NextDurationOrPayload(i) ==
    LET later == {j \in (i + 1)..Len(content) : DurationLine(j) \/ PayloadOf(j) # None}
    IN  IF later = {} THEN 0 ELSE CHOOSE j \in later : \A x \in later : j <= x

\* C25: a pending duration is dropped only by a newer duration line or the end of
\* the input: lines with neither a duration nor a statement payload leave it
\* pending, and the statement line behind them completes the entry with the
\* stored duration
C25_PendingSurvivesOtherLines ==
    fpc = "returned" =>
        \A i \in 1..Len(content) :
            (/\ BareDurationLine(i)
             /\ NextDurationOrPayload(i) # 0
             /\ ~DurationLine(NextDurationOrPayload(i)))
                => HasEntry(PayloadOf(NextDurationOrPayload(i))[1], DurationOf(i)[1])

(***************************************************************************)
(* Properties of parse_mysql_slow_log_entries (checked under SlowSpec)     *)
(***************************************************************************)
\* what each line tried is: the start of a record, a metadata line, a
\* comment, a SET timestamp directive, and its trimmed text
SlowLineFacts ==
    [line \in SlowLogSamples |->
        [start |-> starts_with(line, TimeMarker),
         metadata |-> contains(line, QueryTimeMarker),
         comment |-> starts_with(trim(line), <<"#">>),
         directive |-> starts_with(trim(line), SetTimestampMarker),
         trimmed |-> trim(line)]]

RecordStarts == {i \in 1..Len(content) : SlowLineFacts[content[i]].start}

\* the last line of the record that starts at line s
RecordEnd(s) ==
    IF \E r \in RecordStarts : r > s
    THEN (CHOOSE r \in RecordStarts : r > s /\ \A q \in RecordStarts : q > s => r <= q) - 1
    ELSE Len(content)

\* line j carries SQL text
SqlLine(j) ==
    LET facts == SlowLineFacts[content[j]]
    IN  /\ facts.trimmed # <<>>
        /\ ~facts.comment
        /\ ~facts.directive
        /\ ~facts.metadata

SqlLinesOf(s) == {j \in (s + 1)..RecordEnd(s) : SqlLine(j)}

\* the trimmed SQL lines among lines j..last, joined by newlines
RECURSIVE RecordSql(_, _)
RecordSql(j, last) ==
    IF j > last THEN <<>>
    ELSE IF ~SqlLine(j) THEN RecordSql(j + 1, last)
    ELSE LET rest == RecordSql(j + 1, last)
         IN  IF rest = <<>> THEN SlowLineFacts[content[j]].trimmed
             ELSE SlowLineFacts[content[j]].trimmed \o <<"\n">> \o rest

RecordsWithSql == {s \in RecordStarts : SqlLinesOf(s) # {}}

\* C26: parse_mysql_slow_log_entries returns, in input order, one entry for
\* each "# Time:" record that holds at least one SQL line, the last record
\* included, and none for a record without SQL; the SQL of an entry is the
\* newline-join, in order, of the trimmed non-empty lines of its record that
\* are not comments, SET timestamp directives or metadata lines.
C26_OneEntryPerSqlRecord ==
    fpc = "returned" =>
        /\ Len(parsed) = Cardinality(RecordsWithSql)
        /\ \A s \in RecordsWithSql :
              parsed[Cardinality({r \in RecordsWithSql : r <= s})].sql
                  = RecordSql(s + 1, RecordEnd(s))

\* a record without SQL, then a record of two SQL lines: one entry, holding
\* both lines trimmed
C26_Witness ==
    /\ fpc = "returned"
    /\ content = <<SlowTime, SlowTime, SlowSelect, SlowFrom>>
    /\ Len(parsed) = 1
    /\ parsed[1].sql =
          <<"S", "E", "L", "E", "C", "T", " ", "1", "\n", "F", "R", "O", "M",
            " ", "t", ";">>

(***************************************************************************)
(* Further properties of aggregate_slow_sql_digests (checked under         *)
(* AggSpec)                                                                *)
(***************************************************************************)
\* a total cut to whole microseconds, as the sort key sees it
WholeMicros(nanos) == nanos \div 1000

\* C27: the digests are in the order of non-increasing total query time in
\* whole microseconds, and those with the same whole microseconds in the order
\* of non-increasing count
C27_SortedByMicrosThenCount ==
    fpc = "returned" =>
        \A i, j \in 1..Len(digests) :
            i < j =>
                /\ WholeMicros(digests[i].total_query_time_secs)
                       >= WholeMicros(digests[j].total_query_time_secs)
                /\ WholeMicros(digests[i].total_query_time_secs)
                       = WholeMicros(digests[j].total_query_time_secs)
                   => digests[i].count >= digests[j].count

\* two digests whose totals differ by less than a microsecond: the one with
\* the larger count comes first although its total is the smaller one
C27_Witness ==
    /\ fpc = "returned"
    /\ Len(digests) = 2
    /\ digests[1].count = 2
    /\ digests[2].count = 1
    /\ digests[1].total_query_time_secs = 160000000
    /\ digests[2].total_query_time_secs = 160000400

\* the sum of a field over the first n input entries with fingerprint fp
RECURSIVE SumOfGroup(_, _, _)
SumOfGroup(fp, field, n) ==
    IF n = 0 THEN 0
    ELSE SumOfGroup(fp, field, n - 1)
         + (IF n \in EntriesOf(fp) THEN entries[n][field] ELSE 0)

\* the first input entry with fingerprint fp
FirstOfGroup(fp) == CHOOSE k \in EntriesOf(fp) : \A j \in EntriesOf(fp) : k <= j

\* C28: in every digest the four totals are the sums of the fields over the
\* entries of its group, avg_query_time is the total query time divided by the
\* count, and sample_sql is the statement of the first entry of the group
C28_SumsAverageAndSample ==
    fpc = "returned" =>
        \A k \in 1..Len(digests) :
            LET digest == digests[k]
                fp == digest.fingerprint
            IN  /\ EntriesOf(fp) # {}
                /\ digest.total_query_time_secs
                       = SumOfGroup(fp, "query_time_secs", Len(entries))
                /\ digest.total_lock_time_secs
                       = SumOfGroup(fp, "lock_time_secs", Len(entries))
                /\ digest.total_rows_sent = SumOfGroup(fp, "rows_sent", Len(entries))
                /\ digest.total_rows_examined
                       = SumOfGroup(fp, "rows_examined", Len(entries))
                /\ digest.avg_query_time_secs
                       = <<SumOfGroup(fp, "query_time_secs", Len(entries)),
                           Cardinality(EntriesOf(fp))>>
                /\ digest.sample_sql = entries[FirstOfGroup(fp)].sql

\* a group of two different statements around an entry of another group: the
\* sample is the first statement, the totals are the sums over the two
C28_Witness ==
    /\ fpc = "returned"
    /\ Len(entries) = 3
    /\ entries[1].sql = <<"a", "=", "2">>
    /\ entries[1].query_time_secs = 80000000
    /\ entries[2].sql = <<"b">>
    /\ entries[3].sql = <<"a", "=", "1">>
    /\ entries[3].query_time_secs = 120000000
    /\ \E k \in 1..Len(digests) :
          /\ digests[k].sample_sql = <<"a", "=", "2">>
          /\ digests[k].count = 2
          /\ digests[k].total_query_time_secs = 200000000
          /\ digests[k].avg_query_time_secs = <<200000000, 2>>
          /\ digests[k].total_lock_time_secs = 4000000
          /\ digests[k].total_rows_sent = 2
          /\ digests[k].total_rows_examined = 180

(***************************************************************************)
(* Properties of read_file_appended_segment (checked under SegSpec)        *)
(***************************************************************************)
\* where the segment starts: at the offset when the file has not shrunk below
\* it and the delta fits the cap, otherwise cap bytes before the end of the
\* file, or at its beginning
SegmentStart ==
    IF initial_offset <= log_len /\ log_len - initial_offset <= max_slow_log_bytes
    THEN initial_offset
    ELSE IF log_len - max_slow_log_bytes >= 0 THEN log_len - max_slow_log_bytes
    ELSE 0

\* C29: read_file_appended_segment reads the bytes [start, len) of the file,
\* start being the offset when offset <= len and len - offset <= cap, and
\* max(0, len - cap) when the file shrank below the offset or the delta
\* exceeds the cap; it never reads more than cap bytes
C29_SegmentRange ==
    fpc = "returned" =>
        /\ segment = Some([k \in 1..(log_len - SegmentStart) |-> SegmentStart + k - 1])
        /\ Len(segment[1]) <= max_slow_log_bytes

\* a file that shrank to 3 bytes below the offset 5, read with a cap of 2:
\* the last two bytes
C29_Witness ==
    /\ fpc = "returned"
    /\ log_len = 3
    /\ initial_offset = 5
    /\ max_slow_log_bytes = 2
    /\ segment = Some(<<1, 2>>)

\* a file that grew by 4 bytes past the offset 1, read with a cap of 2: the
\* last two bytes
C29_WitnessDelta ==
    /\ fpc = "returned"
    /\ log_len = 5
    /\ initial_offset = 1
    /\ max_slow_log_bytes = 2
    /\ segment = Some(<<3, 4>>)

(***************************************************************************)
(* The evaluations of a negotiation (checked under NegSpec)                *)
(***************************************************************************)
\* the smaller of the two levels of the policy
ClaimedTarget ==
    IF policy.preferred_level <= policy.max_accepted_level
    THEN policy.preferred_level
    ELSE policy.max_accepted_level

\* C31: the evaluations of the result are one per level from
\* min(preferred, max_accepted) down to Level0, in strictly descending order of
\* level, and none is of a level above that
C31_EvaluationsTargetDownToLevel0 ==
    Returned =>
        /\ Len(result.evaluations) = ClaimedTarget + 1
        /\ \A k \in 1..Len(result.evaluations) :
              result.evaluations[k].level = ClaimedTarget - (k - 1)
        /\ \A level \in CollectionLevel :
              Cardinality(EvaluationsOf(level)) = IF level <= ClaimedTarget THEN 1 ELSE 0

\* preferred Level3 accepted up to Level2, with Level2 ok: Level2, Level1 and
\* Level0 are evaluated, in this order, although the first is already ok
C31_Witness ==
    /\ Returned
    /\ policy.preferred_level = Level3
    /\ policy.max_accepted_level = Level2
    /\ Len(result.evaluations) = 3
    /\ result.evaluations[1].level = Level2
    /\ result.evaluations[1].ok
    /\ result.evaluations[2].level = Level1
    /\ result.evaluations[3].level = Level0

DeepSamplerReason == "no short-window deep sampler available (tcpdump/perf/strace)"

HasReason(evaluation, reason) ==
    \E r \in 1..Len(evaluation.reasons) : evaluation.reasons[r] = reason

AnyDeepSampler ==
    \/ probe.can_capture_tcpdump_short_window
    \/ probe.can_capture_perf_short_window
    \/ probe.can_capture_strace_short_window

\* C32: the evaluation of Level3 is ok exactly when the evaluation of Level2 is
\* ok, expert mode is enabled, high-frequency sampling is available and at least
\* one of tcpdump, perf and strace can be captured; it names the deep-sampler
\* reason exactly when none of the three can
C32_Level3Evaluation ==
    Returned =>
        \A k \in EvaluationsOf(Level3) :
            /\ EvaluationsOf(Level2) # {}
            /\ \A j \in EvaluationsOf(Level2) :
                  result.evaluations[k].ok
                      <=> /\ result.evaluations[j].ok
                          /\ policy.expert_mode_enabled
                          /\ probe.can_sample_innodb_status_high_frequency
                          /\ AnyDeepSampler
            /\ HasReason(result.evaluations[k], DeepSamplerReason) <=> ~AnyDeepSampler

\* Level3 is ok with perf as the only deep sampler
C32_Witness ==
    /\ Returned
    /\ ~probe.can_capture_tcpdump_short_window
    /\ probe.can_capture_perf_short_window
    /\ ~probe.can_capture_strace_short_window
    /\ \E k \in EvaluationsOf(Level3) : result.evaluations[k].ok

(***************************************************************************)
(* Quoted literals in normalize_sql_fingerprint (checked under FpSpec)     *)
(***************************************************************************)
\* the first occurrence of quote in text at index i or later, 0 when there is none
RECURSIVE NextQuote(_, _, _)
NextQuote(text, quote, i) ==
    IF i > Len(text) THEN 0
    ELSE IF text[i] = quote THEN i
    ELSE NextQuote(text, quote, i + 1)

\* the literals of text from index i on, read outside a literal: each is the pair
\* of the indexes of its opening quote and of the next occurrence of that quote
RECURSIVE Literals(_, _)
Literals(text, i) ==
    IF i > Len(text) THEN {}
    ELSE IF text[i] \in {"'", "\""}
    THEN LET close == NextQuote(text, text[i], i + 1)
         IN  IF close = 0 THEN {} ELSE {<<i, close>>} \cup Literals(text, close + 1)
    ELSE Literals(text, i + 1)

\* text with the characters first..last replaced by one '?'
WithPlaceholder(text, first, last) ==
    SubSeq(text, 1, first - 1) \o <<"?">> \o SubSeq(text, last + 1, Len(text))

\* C33: every single- or double-quoted literal of the input, from its opening
\* quote to the next occurrence of the same quote, contributes one '?' to the
\* fingerprint and nothing of its content: the fingerprint is that of the input
\* with the literal replaced by one '?'
C33_LiteralIsOnePlaceholder ==
    fpc = "returned" =>
        \A literal \in Literals(sql, 1) :
            fingerprint
                = normalize_sql_fingerprint(WithPlaceholder(sql, literal[1], literal[2]))

\* a literal holding an upper-case letter, a space and the other quote
C33_Witness ==
    /\ fpc = "returned"
    /\ sql = <<"'", "A", " ", "\"", "'">>
    /\ Literals(sql, 1) = {<<1, 5>>}
    /\ fingerprint = <<"?">>

(***************************************************************************)
(* Further properties of extract_error_log_alerts (checked under           *)
(* AlertSpec)                                                              *)
(***************************************************************************)
\* the n-th input line with a keyword of this category
NthLineOf(category, n) ==
    CHOOSE k \in LinesOf(category) :
        Cardinality({j \in LinesOf(category) : j <= k}) = n

\* C34: the sample lines of every alert are at most 3, they are the first
\* min(3, count) input lines of the category as they were read, in input order,
\* and the count goes on counting the matching lines behind them
C34_FirstThreeSamples ==
    fpc = "returned" =>
        \A k \in 1..Len(alerts) :
            LET category == alerts[k].category
                kept == IF alerts[k].count < 3 THEN alerts[k].count ELSE 3
            IN  /\ Len(alerts[k].sample_lines) <= 3
                /\ alerts[k].count = Cardinality(LinesOf(category))
                /\ alerts[k].sample_lines
                       = [n \in 1..kept |-> error_lines[NthLineOf(category, n)]]

\* four deadlock lines: the count is 4, the samples are the first three, in
\* their mixed case
C34_Witness ==
    /\ fpc = "returned"
    /\ error_lines = <<ErrDeadlockReplica, ErrDeadlock, ErrDeadlock, ErrDeadlockReplica>>
    /\ \E k \in AlertsOf("deadlock") :
          /\ alerts[k].count = 4
          /\ alerts[k].sample_lines = <<ErrDeadlockReplica, ErrDeadlock, ErrDeadlock>>

\* C35: there is exactly one alert for each category with at least one
\* matching line and none for a category without, so that a line of no
\* category adds to nothing, and the alerts are in the order of non-increasing
\* count
C35_OneAlertPerMatchedCategory ==
    fpc = "returned" =>
        /\ \A category \in DOMAIN CategoryKeywords :
              Cardinality(AlertsOf(category))
                  = IF LinesOf(category) = {} THEN 0 ELSE 1
        /\ Len(alerts)
               = Cardinality({category \in DOMAIN CategoryKeywords :
                                  LinesOf(category) # {}})
        /\ \A i, j \in 1..Len(alerts) : i < j => alerts[i].count >= alerts[j].count

\* a line of no category, a deadlock line and a line of deadlock and
\* replication: the deadlock alert with count 2, then the replication alert
C35_Witness ==
    /\ fpc = "returned"
    /\ error_lines = <<ErrNone, ErrDeadlock, ErrDeadlockReplica>>
    /\ Len(alerts) = 2
    /\ alerts[1].category = "deadlock"
    /\ alerts[1].count = 2
    /\ alerts[2].category = "replication"
    /\ alerts[2].count = 1

(***************************************************************************)
(* Metadata lines and lines before the first record in                     *)
(* parse_mysql_slow_log_entries (checked under SlowSpec)                   *)
(***************************************************************************)
\* what the metadata lines tried say: a value that is missing or is no number
\* of its type counts as 0
SlowMetricValues ==
    (SlowMetrics :> [query_time_secs |-> 1200000000, lock_time_secs |-> 10000000,
                     rows_sent |-> 1, rows_examined |-> 90])
    @@ (SlowMetricsShort :> [query_time_secs |-> 300000000, lock_time_secs |-> 0,
                             rows_sent |-> 0, rows_examined |-> 0])
    @@ (SlowMetricsBroken :> [query_time_secs |-> 0, lock_time_secs |-> 0,
                              rows_sent |-> 0, rows_examined |-> 7])

\* the metadata lines of the record that starts at line s
MetadataLinesOf(s) ==
    {j \in (s + 1)..RecordEnd(s) : SlowLineFacts[content[j]].metadata}

\* the entry returned for the record that starts at line s
EntryOf(s) == parsed[Cardinality({r \in RecordsWithSql : r <= s})]

\* C36: every metadata line of a record sets the four numeric fields of its
\* entry from that line, a missing or unparsable value as 0, so that the entry
\* carries the values of the last metadata line of its record; the lines behind
\* a metadata line are parsed as ever and every input returns a list
C36_MetadataSetsAllFour ==
    fpc = "returned" =>
        /\ Len(parsed) = Cardinality(RecordsWithSql)
        /\ \A s \in RecordsWithSql :
              MetadataLinesOf(s) # {} =>
                  LET last == CHOOSE j \in MetadataLinesOf(s) :
                                  \A i \in MetadataLinesOf(s) : i <= j
                      values == SlowMetricValues[content[last]]
                  IN  /\ EntryOf(s).query_time_secs = values.query_time_secs
                      /\ EntryOf(s).lock_time_secs = values.lock_time_secs
                      /\ EntryOf(s).rows_sent = values.rows_sent
                      /\ EntryOf(s).rows_examined = values.rows_examined

\* a full metadata line, then one with an unparsable lock time and no row
\* counts: the entry has the query time of the second and 0 in the other fields
C36_Witness ==
    /\ fpc = "returned"
    /\ content = <<SlowTime, SlowMetrics, SlowMetricsShort, SlowSelect>>
    /\ Len(parsed) = 1
    /\ parsed[1].query_time_secs = 300000000
    /\ parsed[1].lock_time_secs = 0
    /\ parsed[1].rows_sent = 0
    /\ parsed[1].rows_examined = 0

\* the first "# Time:" line, 0 when there is none
FirstRecordStart ==
    IF RecordStarts = {} THEN 0
    ELSE CHOOSE s \in RecordStarts : \A r \in RecordStarts : s <= r

\* the lines before the first "# Time:" line that would count as SQL or as
\* metadata inside a record
LinesBeforeFirstRecord ==
    {j \in 1..Len(content) :
        /\ FirstRecordStart = 0 \/ j < FirstRecordStart
        /\ SqlLine(j) \/ SlowLineFacts[content[j]].metadata}

\* C39: the lines before the first "# Time:" line contribute to no entry: an
\* input without a "# Time:" line yields no entries, and every input yields
\* what its part from the first "# Time:" line on yields alone
C39_LinesBeforeFirstRecordIgnored ==
    fpc = "returned" =>
        /\ FirstRecordStart = 0 => parsed = <<>>
        /\ FirstRecordStart # 0 =>
              parsed = parse_mysql_slow_log_entries(
                           SubSeq(content, FirstRecordStart, Len(content)))

\* a segment that starts in the middle of a record: its metadata and SQL lines
\* are lost, the record behind it is returned
C39_Witness ==
    /\ fpc = "returned"
    /\ content = <<SlowMetrics, SlowSelect, SlowTime, SlowFrom>>
    /\ LinesBeforeFirstRecord = {1, 2}
    /\ Len(parsed) = 1
    /\ parsed[1].sql =
          <<"F", "R", "O", "M", " ", "t", ";">>
    /\ parsed[1].query_time_secs = 0

(***************************************************************************)
(* Determinism of aggregate_slow_sql_digests (checked under AggSpec) and   *)
(* of extract_error_log_alerts (checked under AlertSpec)                   *)
(***************************************************************************)
\* C40: aggregate_slow_sql_digests is deterministic: the list returned is the
\* only one the input can yield, also among digests with the same whole
\* microseconds of total query time and the same count
C40_DigestsDeterministic ==
    fpc = "returned" => aggregate_slow_sql_digests(entries) = {digests}

\* the same of extract_error_log_alerts, also among alerts with the same count
C40_AlertsDeterministic ==
    fpc = "returned" => extract_error_log_alerts(error_lines) = {alerts}

(***************************************************************************)
(* Properties of one run of collect_mysql_slow_log (checked under          *)
(* SlowRunSpec)                                                            *)
(***************************************************************************)
HasWarning(text) == \E k \in 1..Len(report.warnings) : report.warnings[k] = text

\* C37: a run that finds no slow-log path, configured or discovered, returns
\* with a warning, with can_enable_slow_log_hot_switch and can_read_slow_log
\* false and without having sent a statement that sets a server variable; a run
\* that knows the path and fails to read the file adds a warning, leaves
\* can_read_slow_log false and goes on to its end
C37_LogUnavailable ==
    /\ lpc \notin {"fetch_slow_query_log", "fetch_long_query_time",
                   "fetch_slow_query_log_file"} /\ locals.slow_log_path = None
          => /\ lpc = "returned"
             /\ HasWarning("slow log path unavailable")
             /\ ~report.can_enable_slow_log_hot_switch
             /\ ~report.can_read_slow_log
             /\ statements = <<>>
             /\ mysql = mysql0
    /\ locals.segment = "err"
          => /\ locals.slow_log_path # None
             /\ HasWarning("failed reading slow log file")
             /\ ~report.can_read_slow_log
             /\ lpc \in {"restore_long_query_time", "restore_slow_query_log", "returned"}

\* a run with the hot switch enabled, no configured path and none on the
\* server, that has returned
C37_Witness ==
    /\ lpc = "returned"
    /\ l1cfg.enable_slow_log_hot_switch
    /\ l1cfg.slow_log_path = None
    /\ mysql0.slow_query_log_file = <<>>
    /\ report.slow_log_path = None
    /\ HasWarning("slow log path unavailable")

\* a run that knew the path, switched the slow log on, failed to read the file
\* and returned after the restore
C37_WitnessUnreadable ==
    /\ lpc = "returned"
    /\ locals.segment = "err"
    /\ report.slow_log_path = Some(SlowLogFile)
    /\ report.can_enable_slow_log_hot_switch
    /\ ~report.can_read_slow_log
    /\ Len(statements) = 4

\* the run overrode this variable: the server ran its SET GLOBAL statement
Overrode(name) ==
    CASE name = "long_query_time" -> locals.set_long = "ok"
      [] name = "slow_query_log" -> locals.set_slow_log = "ok"

\* the warning of a restore statement the server did not run
RestoreWarning(name) ==
    CASE name = "long_query_time" -> "failed to restore long_query_time"
      [] name = "slow_query_log" -> "failed to restore slow_query_log"

\* the variable has the value it had before the run, or the statement that sets
\* it back was sent behind the two overriding statements, failed and was warned of
SetBack(name) ==
    \/ mysql[name] = mysql0[name]
    \/ /\ HasWarning(RestoreWarning(name))
       /\ \E k \in 3..Len(statements) :
             /\ statements[k].name = name
             /\ statements[k].value = mysql0[name]
             /\ ~statements[k].ok

\* C38: with hot switch and restore enabled, when a run returns every server
\* variable it overrode has its value from before the run, also when the log
\* could not be read and when the previous value could not be captured, unless
\* the statement that sets it back failed, which only adds a warning
C38_OverridesSetBack ==
    /\ lpc = "returned"
    /\ l1cfg.enable_slow_log_hot_switch
    /\ l1cfg.restore_slow_log_settings
    => \A name \in {"long_query_time", "slow_query_log"} :
           Overrode(name) => SetBack(name)

\* the same for the runs that captured both previous values
C38_SetBackWhenCaptured ==
    /\ lpc = "returned"
    /\ l1cfg.enable_slow_log_hot_switch
    /\ l1cfg.restore_slow_log_settings
    /\ report.previous_long_query_time # None
    /\ report.previous_slow_query_log # None
    => \A name \in {"long_query_time", "slow_query_log"} :
           Overrode(name) => SetBack(name)

====
